---- MODULE Spec2Model ----
(***************************************************************************)
(* Aerodrome liquidity position monitor.                                   *)
(*                                                                         *)
(* The model follows services/monitor.ts (the cooldown version) and the    *)
(* driver index.ts.  A poll cycle is one invocation of checkAndAlert; it   *)
(* is an async function, so it is modelled as a sequence of atomic         *)
(* segments that end at an await (monitorPositions, sendUnstakedAlert,     *)
(* sendOutOfRangeAlert, sendBackInRangeAlert).  The interval timer of      *)
(* startMonitoring may fire between any two segments.                      *)
(***************************************************************************)
EXTENDS Integers, Sequences, FiniteSets, TLC

VARIABLES
    previousStates,   \* monitor.ts: Map<string, PositionState>
    now,              \* the wall clock read by Date.now(), in ms
    isShuttingDown,   \* index.ts: isShuttingDown
    monitoringInterval, \* index.ts: TRUE while the setInterval timer is armed
    mainPc,           \* position of main(): initialCheck, startupNotification, monitoring, exited
    cycles,           \* one record per checkAndAlert invocation slot
    wallet,           \* the wallet's concentrated-liquidity position slots (fixed in a run)
    cyclesLeft,       \* interval callbacks that may still start in this run
    ticksLeft,        \* clock advances that may still happen in this run
    failuresLeft,     \* notifier calls that may still return false in this run
    lastEval,         \* history: the most recently completed evaluation of one position
    lastOorSent,      \* history: per key, the clock reading (currentTime) of the cycle that
                      \* sent the latest out-of-range alert (0: none)
    observed,         \* history: the (pool_address, position_id) pairs evaluated so far
    overlapSeen,      \* history: TRUE once a cycle started while another was in flight
    rangeIn,          \* inputs of the range-predicate check (position, pool)
    rangeOut,         \* result of getPositionStatus on rangeIn
    scenario,         \* history of the fixed-interval cooldown scenario
    fetcher,          \* sugar.ts: one fetchPositions call (its locals and its call log)
    resolver,         \* sugar.ts: poolCache and the fetchPoolsForPositions call in progress
    rateLimiter,      \* rate-limiter.ts: the shared RateLimiter and the execute calls in progress
    ttlCache,         \* cache.ts: one Cache instance (its data Map) and the latest call on it
    batchProvider,    \* batch-provider.ts: one BatchProvider.execute call
    rpcManager        \* rpc-manager.ts: the RpcManager singleton and its operation in progress

vars == <<previousStates, now, isShuttingDown, monitoringInterval, mainPc, cycles,
          wallet, cyclesLeft, ticksLeft, failuresLeft, lastEval, lastOorSent, observed,
          overlapSeen, rangeIn, rangeOut, scenario, fetcher,
          resolver, rateLimiter, ttlCache, batchProvider, rpcManager>>

\* the state of the data services (Position Fetcher, Pool Resolver)
serviceVars == <<fetcher, resolver, rateLimiter, ttlCache, batchProvider, rpcManager>>

\* the state of the utilities (RateLimiter, Cache, BatchProvider, RpcManager)
utilVars == <<rateLimiter, ttlCache, batchProvider, rpcManager>>

monitorVars == <<previousStates, now, isShuttingDown, monitoringInterval, mainPc, cycles,
                 wallet, cyclesLeft, ticksLeft, failuresLeft, lastEval, lastOorSent, observed,
                 overlapSeen>>

-----------------------------------------------------------------------------
(* Program constants *)

\* monitor.ts: const ALERT_COOLDOWN_MS = 60 * 60 * 1000
ALERT_COOLDOWN_MS == 60 * 60 * 1000

-----------------------------------------------------------------------------
(* Bounds of the model *)

\* number of clock advances explored by the general specification
MaxTicks == 3
\* number of interval callbacks that may be in flight at once
MaxCallbacks == 2
\* number of interval callbacks started in one run
MaxCycles == 2
\* the same two bounds for the runs over a wallet of two positions
WalletTicks == 1
WalletCycles == 1
\* notifier calls that may fail in a run of the failing-notifier specification
MaxFailures == 2
\* largest staked amount fed to the monitor
MaxStaked == 1
\* ticks of the range-predicate check are drawn from -TickSpan..TickSpan
TickSpan == 3
\* observations of the fixed-interval scenario (3 hours at one per 10 minutes)
Observations == 18

\* one clock advance of the general specification: half the cooldown, so that
\* gaps below, equal to and above the cooldown all occur
TimeStep == ALERT_COOLDOWN_MS \div 2
\* Date.now() at program start (any value above the cooldown)
StartTime == 2 * ALERT_COOLDOWN_MS

\* the wallet's concentrated-liquidity positions: same id in two pools
Pools == {"0xA", "0xB"}
PositionSlots == <<[id |-> 1, lp |-> "0xA", tick_lower |-> 900, tick_upper |-> 1100],
                   [id |-> 1, lp |-> "0xB", tick_lower |-> 900, tick_upper |-> 1100]>>
PoolTicks == {1000, 1150}

CallbackIds == 1..MaxCallbacks
CycleIds == 0..MaxCallbacks      \* 0 is the checkAndAlert of runInitialCheck

-----------------------------------------------------------------------------
(* monitor.ts: pure helpers *)

\* mutant: the key is built from the position id alone
positionKey_IdOnly(status) == <<"", status.positionId>>

\* positionKey = `${status.poolAddress}-${status.positionId}`: addresses hold no
\* "-", so the string is determined by, and determines, the pair
positionKey(status) == <<status.poolAddress, status.positionId>>

Keys == {<<PositionSlots[i].lp, PositionSlots[i].id>> : i \in 1..Len(PositionSlots)}

\* previousStates.get(key) === undefined
NoState == [absent |-> TRUE]

\* mutant: the upper bound is taken as inclusive
isPositionInRange_Inclusive(position, pool) ==
    pool.tick >= position.tick_lower /\ pool.tick <= position.tick_upper

isPositionInRange(position, pool) ==
    pool.tick >= position.tick_lower /\ pool.tick < position.tick_upper

getPositionStatus(position, pool) ==
    [positionId  |-> position.id,
     poolAddress |-> position.lp,
     isInRange   |-> isPositionInRange(position, pool),
     currentTick |-> pool.tick,
     tickLower   |-> position.tick_lower,
     tickUpper   |-> position.tick_upper,
     isStaked    |-> position.staked > 0]

\* mutant: the stored range state is ignored, every out-of-range status is a transition
WasInRange_Always(prevState) == TRUE

\* `prevState?.isInRange ?? true`: a new position is assumed to have been in range
WasInRange(prevState) == IF prevState = NoState THEN TRUE ELSE prevState.isInRange

\* `prevState?.isStaked ?? true`: a new position is assumed to have been staked
WasStaked(prevState) == IF prevState = NoState THEN TRUE ELSE prevState.isStaked

\* mutant: the cooldown counts as elapsed at exactly ALERT_COOLDOWN_MS
CooldownExpired_AtLeast(currentTime, last) == (currentTime - last) >= ALERT_COOLDOWN_MS

\* mutant: the timestamps are compared without the cooldown
CooldownExpired_NoWindow(currentTime, last) == currentTime > last

\* `(currentTime - last) > ALERT_COOLDOWN_MS`
CooldownExpired(currentTime, last) == (currentTime - last) > ALERT_COOLDOWN_MS

\* `prevState?.lastOutOfRangeAlertTime || 0`
LastOutOfRangeOf(prevState) ==
    IF prevState = NoState THEN 0 ELSE prevState.lastOutOfRangeAlertTime

\* `prevState?.lastUnstakedAlertTime || 0`
LastUnstakedOf(prevState) ==
    IF prevState = NoState THEN 0 ELSE prevState.lastUnstakedAlertTime

\* Map.get / Map.set of previousStates: a function whose domain is the keys present
MapGet(map, k) == IF k \in DOMAIN map THEN map[k] ELSE NoState

\* mutant: the write replaces every stored observation
MapSet_Broadcast(map, k, v) == [x \in (DOMAIN map) \cup {k} |-> v]

MapSet(map, k, v) == [x \in (DOMAIN map) \cup {k} |-> IF x = k THEN v ELSE map[x]]

-----------------------------------------------------------------------------
(* notifier.ts: what each alert call hands to sendNotification *)

\* mutant: the direction test compares against the wrong bound, the wrong way round
sendOutOfRangeAlert_Swapped(positionId, currentTick, tickLower, tickUpper, isStaked) ==
    [kind       |-> "outOfRange",
     positionId |-> positionId,
     currentTick |-> currentTick,
     direction  |-> IF currentTick > tickLower THEN "below" ELSE "above",
     stakeStatus |-> IF isStaked THEN "Staked" ELSE "Unstaked"]

sendOutOfRangeAlert(positionId, currentTick, tickLower, tickUpper, isStaked) ==
    [kind       |-> "outOfRange",
     positionId |-> positionId,
     currentTick |-> currentTick,
     direction  |-> IF currentTick < tickLower THEN "below" ELSE "above",
     stakeStatus |-> IF isStaked THEN "Staked" ELSE "Unstaked"]

sendBackInRangeAlert(positionId, currentTick, tickLower, tickUpper, isStaked) ==
    [kind       |-> "backInRange",
     positionId |-> positionId,
     currentTick |-> currentTick,
     direction  |-> "none",
     stakeStatus |-> IF isStaked THEN "Staked" ELSE "Unstaked"]

sendUnstakedAlert(positionId, currentTick, tickLower, tickUpper) ==
    [kind       |-> "unstaked",
     positionId |-> positionId,
     currentTick |-> currentTick,
     direction  |-> "none",
     stakeStatus |-> "Unstaked"]

-----------------------------------------------------------------------------
(* monitor.ts: checkAndAlert, cut into the segments between its awaits.     *)
(* A segment works on a record m: cy (the invocation's locals), ps (the     *)
(* previousStates map), t (the clock), and the history fields le, oor, obs. *)

IdleCycle ==
    [pc |-> "idle", statuses |-> <<>>, idx |-> 0, currentTime |-> 0,
     prevState |-> NoState, lastOutOfRange |-> 0, lastUnstaked |-> 0,
     alerts |-> <<>>, oorGap |-> -1, ownPrev |-> NoState,
     skipped |-> {}, skippedObs |-> <<>>, sendFailed |-> FALSE, failures |-> FALSE]

NoEval ==
    [cycle |-> -1, key |-> <<"", 0>>, prev |-> NoState, isInRange |-> TRUE,
     isStaked |-> TRUE, currentTick |-> 0, tickLower |-> 0, tickUpper |-> 0,
     time |-> 0, alerts |-> <<>>, oorGap |-> -1, stored |-> NoState,
     ownPrev |-> NoState, othersKept |-> TRUE, wasSkipped |-> FALSE,
     sendFailed |-> FALSE]

CurrentStatus(m) == m.cy.statuses[m.cy.idx]

\* the call of a notifier function: the notification leaves before the await suspends
Emit(m, n) ==
    LET status == CurrentStatus(m)
        pair == <<status.poolAddress, status.positionId>>
        before == m.oor[pair]
    IN  IF n.kind = "outOfRange"
        THEN [m EXCEPT !.cy.alerts = Append(@, n),
                       !.cy.oorGap = IF before = 0 THEN -1 ELSE m.cy.currentTime - before,
                       !.oor[pair] = m.cy.currentTime]
        ELSE [m EXCEPT !.cy.alerts = Append(@, n)]

\* checkAndAlert returns: `return []` / `return statuses`
Finish(m) ==
    [m EXCEPT !.cy = IF m.id = 0
                     THEN [IdleCycle EXCEPT !.pc = "done", !.statuses = m.cy.statuses,
                                            !.skipped = m.cy.skipped,
                                            !.skippedObs = m.cy.skippedObs,
                                            !.failures = m.cy.failures]
                     ELSE IdleCycle]

RECURSIVE BeginIteration(_)
RECURSIVE monitorPositions(_, _)

\* "Update state": previousStates.set(positionKey, {...}); then the next iteration
UpdateState(m) ==
    LET status == CurrentStatus(m)
        key == positionKey(status)
        newState == [isInRange |-> status.isInRange,
                     isStaked |-> status.isStaked,
                     lastOutOfRangeAlertTime |-> m.cy.lastOutOfRange,
                     lastUnstakedAlertTime |-> m.cy.lastUnstaked]
        newMap == MapSet(m.ps, key, newState)
        eval == [cycle |-> m.id,
                 key |-> <<status.poolAddress, status.positionId>>,
                 prev |-> m.cy.prevState,
                 isInRange |-> status.isInRange,
                 isStaked |-> status.isStaked,
                 currentTick |-> status.currentTick,
                 tickLower |-> status.tickLower,
                 tickUpper |-> status.tickUpper,
                 time |-> m.cy.currentTime,
                 alerts |-> m.cy.alerts,
                 oorGap |-> m.cy.oorGap,
                 stored |-> newState,
                 \* history: what was stored for this pair when the evaluation began,
                 \* and whether the write left every other entry as it was
                 ownPrev |-> m.cy.ownPrev,
                 \* history: monitorPositions had skipped this pair in this cycle
                 wasSkipped |-> <<status.poolAddress, status.positionId>> \in m.cy.skipped,
                 \* history: a notifier call of this evaluation returned false
                 sendFailed |-> m.cy.sendFailed,
                 othersKept |-> \A j \in DOMAIN newMap :
                                  j # key => j \in DOMAIN m.ps /\ newMap[j] = m.ps[j]]
    IN  BeginIteration([m EXCEPT !.ps = newMap,
                                 !.le = eval,
                                 !.obs = @ \cup {<<status.poolAddress, status.positionId>>},
                                 !.cy.idx = @ + 1])

\* mutant: the out-of-range alert does not start its cooldown clock
AfterOutOfRangeSend_NoStamp(m) == UpdateState(m)

\* resumption after `await sendOutOfRangeAlert(...)`
AfterOutOfRangeSend(m) == UpdateState([m EXCEPT !.cy.lastOutOfRange = m.cy.currentTime])

\* mutant: the cooldown clock is not cleared after a back-in-range alert
AfterBackInRangeSend_NoReset(m) == UpdateState(m)

\* resumption after `await sendBackInRangeAlert(...)`
AfterBackInRangeSend(m) == UpdateState([m EXCEPT !.cy.lastOutOfRange = 0])

\* mutant: the back-in-range test reads `!prevState?.isInRange`, true for a new position
RangeAlert_NoPrevGuard(m) ==
    LET status == CurrentStatus(m)
        prevState == m.cy.prevState
    IN  IF ~status.isInRange
        THEN LET wasInRange == WasInRange(prevState)
                 isTransition == (wasInRange = TRUE)
                 cooldownExpired == CooldownExpired(m.cy.currentTime, m.cy.lastOutOfRange)
             IN  IF isTransition \/ cooldownExpired
                 THEN [Emit(m, sendOutOfRangeAlert(status.positionId, status.currentTick,
                                                   status.tickLower, status.tickUpper,
                                                   status.isStaked))
                         EXCEPT !.cy.pc = "sendOutOfRange"]
                 ELSE UpdateState(m)
        ELSE IF prevState = NoState \/ ~prevState.isInRange
             THEN [Emit(m, sendBackInRangeAlert(status.positionId, status.currentTick,
                                                status.tickLower, status.tickUpper,
                                                status.isStaked))
                     EXCEPT !.cy.pc = "sendBackInRange"]
             ELSE UpdateState([m EXCEPT !.cy.lastOutOfRange = 0])

\* "2. Range Alert"
RangeAlert(m) ==
    LET status == CurrentStatus(m)
        prevState == m.cy.prevState
    IN  IF ~status.isInRange
        THEN LET wasInRange == WasInRange(prevState)
                 isTransition == (wasInRange = TRUE)
                 cooldownExpired == CooldownExpired(m.cy.currentTime, m.cy.lastOutOfRange)
             IN  IF isTransition \/ cooldownExpired
                 THEN [Emit(m, sendOutOfRangeAlert(status.positionId, status.currentTick,
                                                   status.tickLower, status.tickUpper,
                                                   status.isStaked))
                         EXCEPT !.cy.pc = "sendOutOfRange"]
                 ELSE UpdateState(m)
        ELSE IF prevState # NoState /\ ~prevState.isInRange
             THEN [Emit(m, sendBackInRangeAlert(status.positionId, status.currentTick,
                                                status.tickLower, status.tickUpper,
                                                status.isStaked))
                     EXCEPT !.cy.pc = "sendBackInRange"]
             ELSE UpdateState([m EXCEPT !.cy.lastOutOfRange = 0])

\* mutant: the unstaked alert does not restart its cooldown clock
AfterUnstakedSend_NoStamp(m) == RangeAlert(m)

\* resumption after `await sendUnstakedAlert(...)`
AfterUnstakedSend(m) == RangeAlert([m EXCEPT !.cy.lastUnstaked = m.cy.currentTime])

\* mutant: the unstaked alert needs a stored observation (no first-observation alert)
UnstakedAlert_NeedsPrev(m) ==
    LET status == CurrentStatus(m)
        prevState == m.cy.prevState
    IN  IF ~status.isStaked
        THEN LET wasStaked == WasStaked(prevState)
                 isTransition == (wasStaked = TRUE)
                 cooldownExpired == CooldownExpired(m.cy.currentTime, m.cy.lastUnstaked)
             IN  IF prevState # NoState /\ (isTransition \/ cooldownExpired)
                 THEN [Emit(m, sendUnstakedAlert(status.positionId, status.currentTick,
                                                 status.tickLower, status.tickUpper))
                         EXCEPT !.cy.pc = "sendUnstaked"]
                 ELSE RangeAlert(m)
        ELSE RangeAlert([m EXCEPT !.cy.lastUnstaked = 0])

\* "1. Unstaked Alert"
UnstakedAlert(m) ==
    LET status == CurrentStatus(m)
        prevState == m.cy.prevState
    IN  IF ~status.isStaked
        THEN LET wasStaked == WasStaked(prevState)
                 isTransition == (wasStaked = TRUE)
                 cooldownExpired == CooldownExpired(m.cy.currentTime, m.cy.lastUnstaked)
             IN  IF isTransition \/ cooldownExpired
                 THEN [Emit(m, sendUnstakedAlert(status.positionId, status.currentTick,
                                                 status.tickLower, status.tickUpper))
                         EXCEPT !.cy.pc = "sendUnstaked"]
                 ELSE RangeAlert(m)
        ELSE RangeAlert([m EXCEPT !.cy.lastUnstaked = 0])

\* mutant: the cooldown clock is started only by a notification that was delivered
AfterSend_StampOnSuccess(m, pc, ok) ==
    LET m1 == [m EXCEPT !.cy.sendFailed = @ \/ ~ok, !.cy.failures = @ \/ ~ok]
    IN  CASE pc = "sendUnstaked" -> IF ok THEN AfterUnstakedSend(m1) ELSE RangeAlert(m1)
          [] pc = "sendOutOfRange" -> IF ok THEN AfterOutOfRangeSend(m1) ELSE UpdateState(m1)
          [] OTHER -> AfterBackInRangeSend(m1)

\* an awaited notifier call settles with its boolean result (sendNotification
\* catches every error and returns false); checkAndAlert does not look at it
AfterSend(m, pc, ok) ==
    LET m1 == [m EXCEPT !.cy.sendFailed = @ \/ ~ok, !.cy.failures = @ \/ ~ok]
    IN  CASE pc = "sendUnstaked" -> AfterUnstakedSend(m1)
          [] pc = "sendOutOfRange" -> AfterOutOfRangeSend(m1)
          [] OTHER -> AfterBackInRangeSend(m1)

\* head of the loop `for (const status of statuses)`
BeginIteration(m) ==
    IF m.cy.idx > Len(m.cy.statuses)
    THEN Finish(m)
    ELSE LET prevState == MapGet(m.ps, positionKey(CurrentStatus(m)))
         IN  UnstakedAlert([m EXCEPT
                 !.cy.prevState = prevState,
                 !.cy.lastOutOfRange = LastOutOfRangeOf(prevState),
                 !.cy.lastUnstaked = LastUnstakedOf(prevState),
                 !.cy.alerts = <<>>,
                 !.cy.oorGap = -1,
                 !.cy.sendFailed = FALSE,
                 !.cy.ownPrev = MapGet(m.ps, <<CurrentStatus(m).poolAddress,
                                               CurrentStatus(m).positionId>>)])

\* checkAndAlert from the resolution of monitorPositions to its first await
AfterMonitorPositions(m, statuses) ==
    LET m0 == [m EXCEPT !.cy.statuses = statuses, !.cy.currentTime = m.t, !.cy.idx = 1]
    IN  IF Len(statuses) = 0 THEN Finish(m0) ELSE BeginIteration(m0)

\* mutant: a position whose pool is missing gets a status with tick 0
monitorPositions_NoSkip(clPositions, poolMap) ==
    [i \in 1..Len(clPositions) |->
        getPositionStatus(clPositions[i],
                          [tick |-> IF clPositions[i].lp \in DOMAIN poolMap
                                    THEN poolMap[clPositions[i].lp] ELSE 0])]

\* monitorPositions: one status per position whose pool was resolved
monitorPositions(clPositions, poolMap) ==
    IF clPositions = <<>> THEN <<>>
    ELSE LET position == Head(clPositions)
             rest == monitorPositions(Tail(clPositions), poolMap)
         IN  IF position.lp \notin DOMAIN poolMap
             THEN rest
             ELSE <<getPositionStatus(position, [tick |-> poolMap[position.lp]])>> \o rest

\* history: the pairs monitorPositions left out for want of pool data, with the
\* observation stored for each at that moment
NoteSkipped(m, clPositions, poolMap) ==
    LET pairs == {<<clPositions[i].lp, clPositions[i].id>> :
                     i \in {j \in 1..Len(clPositions) : clPositions[j].lp \notin DOMAIN poolMap}}
    IN  [m EXCEPT !.cy.skipped = pairs,
                  !.cy.skippedObs = [k \in pairs |-> MapGet(m.ps,
                        positionKey([poolAddress |-> k[1], positionId |-> k[2]]))]]

-----------------------------------------------------------------------------
(* Inputs of one poll cycle: what the Position Fetcher and the Pool Resolver return *)

\* per position slot: -1 when the fetch does not return it, else its staked amount
FetchChoices == [1..Len(wallet) -> -1..MaxStaked]

RECURSIVE FetchedPositions(_, _)
FetchedPositions(choice, i) ==
    IF i > Len(wallet) THEN <<>>
    ELSE IF choice[i] = -1 THEN FetchedPositions(choice, i + 1)
    ELSE <<[id |-> wallet[i].id, lp |-> wallet[i].lp,
            tick_lower |-> wallet[i].tick_lower,
            tick_upper |-> wallet[i].tick_upper,
            staked |-> choice[i]]>> \o FetchedPositions(choice, i + 1)

\* the Pool Resolver's result: a tick for each pool it could resolve
PoolMaps == UNION {[S -> PoolTicks] : S \in SUBSET Pools}

-----------------------------------------------------------------------------
(* sugar.ts: fetchPositions.  The function is async: one step per awaited    *)
(* call (count, then each page of positions(), then each page of             *)
(* positionsUnstakedConcentrated()).  A call is one rateLimiter.execute(...) *)
(* which resolves with the accessor's result or rejects.                     *)

\* ethers.ZeroAddress
ZeroAddress == "0x0"

\* `const limit = 500`
limit == 500

\* `let maxPoolsToCheck = 25000`, kept when count() fails
DefaultMaxPools == 25000

\* the registry reports up to MaxPages full pages; a page holds up to MaxBatch tuples
MaxPages == 2
MaxBatch == 2

\* count() values: around every page boundary up to MaxPages pages
RegistryCounts ==
    {c \in {k * limit + d : k \in 0..MaxPages, d \in {0, 1}} : c <= MaxPages * limit}

\* tuples the accessors may return: the same pair with two contents, the same id
\* in another pool, an empty slot, a zero pool address, an id-0 tuple with liquidity
SlotTuples ==
    {[id |-> 1, lp |-> "0xA", liquidity |-> 1, staked |-> 0],
     [id |-> 1, lp |-> "0xA", liquidity |-> 0, staked |-> 1],
     [id |-> 1, lp |-> "0xB", liquidity |-> 1, staked |-> 0],
     [id |-> 0, lp |-> "0xA", liquidity |-> 0, staked |-> 0],
     [id |-> 1, lp |-> ZeroAddress, liquidity |-> 1, staked |-> 0],
     [id |-> 0, lp |-> "0xA", liquidity |-> 1, staked |-> 0]}

\* what one page call may resolve with
Batches == UNION {[1..n -> SlotTuples] : n \in 0..MaxBatch}

\* parsePosition: the fields are copied (the two ticks through Number(), exact for int24)
parsePosition(pos) ==
    [id |-> pos.id, lp |-> pos.lp, liquidity |-> pos.liquidity, staked |-> pos.staked]

\* mutant: only a tuple with liquidity is taken for a position
Qualifies_NeedsLiquidity(pos) ==
    /\ pos.lp # ZeroAddress
    /\ pos.liquidity > 0

\* the two `if`s around parsePosition
Qualifies(pos) ==
    /\ pos.lp # ZeroAddress
    /\ (pos.liquidity > 0 \/ pos.staked > 0 \/ pos.id > 0)

\* mutant: two positions are the same only if all their fields agree
SamePosition_AllFields(existing, p) == existing = p

\* `existing.id === p.id && existing.lp === p.lp`
SamePosition(existing, p) == existing.id = p.id /\ existing.lp = p.lp

\* the `for (const pos of batch)` loop of either accessor
RECURSIVE CollectBatch(_, _)
CollectBatch(allPositions, batch) ==
    IF batch = <<>> THEN allPositions
    ELSE LET pos == Head(batch)
             p == parsePosition(pos)
             next == IF Qualifies(pos)
                        /\ ~\E i \in 1..Len(allPositions) : SamePosition(allPositions[i], p)
                     THEN Append(allPositions, p)
                     ELSE allPositions
         IN  CollectBatch(next, Tail(batch))

\* history: for each (id, pool address) pair, the first tuple met, in a page that
\* resolved, with a non-zero pool address and not all of liquidity, staked, id zero
RECURSIVE NoteFirstSeen(_, _)
NoteFirstSeen(firstSeen, batch) ==
    IF batch = <<>> THEN firstSeen
    ELSE LET pos == Head(batch)
             pair == <<pos.id, pos.lp>>
             counts == pos.lp # ZeroAddress
                       /\ ~(pos.liquidity = 0 /\ pos.staked = 0 /\ pos.id = 0)
         IN  NoteFirstSeen(IF counts /\ pair \notin DOMAIN firstSeen
                           THEN [x \in (DOMAIN firstSeen) \cup {pair} |->
                                    IF x = pair THEN pos ELSE firstSeen[x]]
                           ELSE firstSeen,
                           Tail(batch))

\* no fetchPositions call is running
FetcherIdle ==
    [pc |-> "idle", maxPoolsToCheck |-> 0, offset |-> 0, allPositions |-> <<>>,
     countOk |-> FALSE, calls |-> <<>>, firstSeen |-> <<>>, pageFailed |-> FALSE,
     dupDropped |-> FALSE, sawDiscard |-> FALSE]

\* mutant: the loop runs while offset <= maxPoolsToCheck
LoopContinues_Inclusive(offset, maxPoolsToCheck) == offset <= maxPoolsToCheck

\* `offset < maxPoolsToCheck`
LoopContinues(offset, maxPoolsToCheck) == offset < maxPoolsToCheck

\* the test of either `for` loop, run on to the next page call or to the return;
\* a page call that is made is noted in the call log
RECURSIVE NextCall(_)
NextCall(f) ==
    IF f.pc = "returned" THEN f
    ELSE IF LoopContinues(f.offset, f.maxPoolsToCheck)
    THEN [f EXCEPT !.calls = Append(@, [accessor |-> f.pc, limit |-> limit,
                                        offset |-> f.offset])]
    ELSE IF f.pc = "positions"
    THEN NextCall([f EXCEPT !.pc = "positionsUnstakedConcentrated", !.offset = 0])
    ELSE [f EXCEPT !.pc = "returned"]

\* mutant: an error of a page call ends the fetch
AfterPageError_Abort(f) == [f EXCEPT !.pc = "failed", !.pageFailed = TRUE]

\* the `catch` of a page call: the error is logged (or dropped), the loop goes on
AfterPageError(f) ==
    NextCall([f EXCEPT !.offset = @ + limit, !.pageFailed = TRUE])

\* a page call resolved with batch
AfterPage(f, batch) ==
    LET collected == CollectBatch(f.allPositions, batch)
        dup == /\ f.pc = "positionsUnstakedConcentrated"
               /\ \E i \in 1..Len(batch), j \in 1..Len(f.allPositions) :
                     /\ batch[i].id = f.allPositions[j].id
                     /\ batch[i].lp = f.allPositions[j].lp
                     /\ parsePosition(batch[i]) # f.allPositions[j]
        junk == \E i \in 1..Len(batch) :
                   \/ batch[i].lp = ZeroAddress
                   \/ batch[i].liquidity = 0 /\ batch[i].staked = 0 /\ batch[i].id = 0
    IN  NextCall([f EXCEPT !.allPositions = collected,
                           !.firstSeen = NoteFirstSeen(@, batch),
                           !.dupDropped = @ \/ dup,
                           !.sawDiscard = @ \/ junk,
                           !.offset = @ + limit])

\* fetchPositions is called: it awaits count()
FetchStart ==
    [FetcherIdle EXCEPT !.pc = "count", !.maxPoolsToCheck = DefaultMaxPools]

\* count() resolves with the registry's count
CountResolves ==
    /\ fetcher.pc = "count"
    /\ \E countVal \in RegistryCounts :
          fetcher' = NextCall([fetcher EXCEPT !.pc = "positions",
                                              !.maxPoolsToCheck = countVal,
                                              !.countOk = TRUE])
    /\ UNCHANGED <<monitorVars, rangeIn, rangeOut, scenario, resolver, utilVars>>

\* mutant: a rejected count() ends the fetch
CountRejects_Fails ==
    /\ fetcher.pc = "count"
    /\ fetcher' = [fetcher EXCEPT !.pc = "failed"]
    /\ UNCHANGED <<monitorVars, rangeIn, rangeOut, scenario, resolver, utilVars>>

\* count() rejects: the default of 25000 is kept
CountRejects ==
    /\ fetcher.pc = "count"
    /\ fetcher' = NextCall([fetcher EXCEPT !.pc = "positions"])
    /\ UNCHANGED <<monitorVars, rangeIn, rangeOut, scenario, resolver, utilVars>>

\* the awaited page call resolves
PageResolves ==
    /\ fetcher.pc \in {"positions", "positionsUnstakedConcentrated"}
    /\ \E batch \in Batches : fetcher' = AfterPage(fetcher, batch)
    /\ UNCHANGED <<monitorVars, rangeIn, rangeOut, scenario, resolver, utilVars>>

\* the awaited page call rejects
PageRejects ==
    /\ fetcher.pc \in {"positions", "positionsUnstakedConcentrated"}
    /\ fetcher' = AfterPageError(fetcher)
    /\ UNCHANGED <<monitorVars, rangeIn, rangeOut, scenario, resolver, utilVars>>

NextFetch == CountResolves \/ CountRejects \/ PageResolves \/ PageRejects

-----------------------------------------------------------------------------
(* sugar.ts: fetchPoolsForPositions and fetchPoolData, with the poolCache of *)
(* utils/cache.ts.  The pools are resolved one after the other; for a pool   *)
(* that is not cached, fetchPoolData awaits the five pool calls together,    *)
(* then the four token calls together.                                       *)

\* config.cacheTtlMs (default of CACHE_TTL_MS)
CacheTtlMs == 30000

\* one clock advance while pools are resolved: half the TTL
ResolverTimeStep == CacheTtlMs \div 2

\* clock advances and fetchPoolsForPositions calls in a run of the resolver
ResolverTicks == 3
ResolverCalls == 2

\* the pool addresses (position.lp) of the positions handed to a call
ResolveInputs == {<<"0xA">>, <<"0xA", "0xB">>, <<"0xB", "0xA", "0xB">>}

\* the pool calls of the first Promise.all and the token calls of the second
BasicsCalls == {"slot0", "token0", "token1", "liquidity", "tickSpacing"}
TokenCalls == {"symbol0", "decimals0", "symbol1", "decimals1"}

\* `[...new Set(positions.map((p) => p.lp))]`: first occurrences, in order
RECURSIVE UniquePools(_)
UniquePools(lps) ==
    IF lps = <<>> THEN <<>>
    ELSE LET front == UniquePools(SubSeq(lps, 1, Len(lps) - 1))
             last == lps[Len(lps)]
         IN  IF \E i \in 1..Len(front) : front[i] = last THEN front ELSE Append(front, last)

\* the LpPool built by fetchPoolData
PoolData(poolAddress, tick) ==
    [lp |-> poolAddress, symbol |-> "T0/T1", tick |-> tick]

\* mutant: an entry is live until the clock is past its expiry by another TTL
CacheLive_Late(entry, time) == time <= entry.expiry + CacheTtlMs

\* Cache.get: an entry is returned unless `Date.now() > entry.expiry`
CacheLive(entry, time) == ~(time > entry.expiry)

\* Cache.get(key): the value, or undefined (an expired entry is deleted)
CacheGet(data, key, time) ==
    IF key \in DOMAIN data /\ CacheLive(data[key], time)
    THEN [hit |-> TRUE, value |-> data[key].value, data |-> data]
    ELSE [hit |-> FALSE, value |-> <<>>,
          data |-> [k \in (DOMAIN data) \ {key} |-> data[k]]]

\* mutant: a key that is already stored keeps its expiry
CacheSet_KeepExpiry(data, key, value, time) ==
    [k \in (DOMAIN data) \cup {key} |->
        IF k = key
        THEN [value |-> value,
              expiry |-> IF key \in DOMAIN data THEN data[key].expiry
                         ELSE time + CacheTtlMs]
        ELSE data[k]]

\* Cache.set(key, value)
CacheSet(data, key, value, time) ==
    [k \in (DOMAIN data) \cup {key} |->
        IF k = key THEN [value |-> value, expiry |-> time + CacheTtlMs] ELSE data[k]]

\* no fetchPoolsForPositions call is running
ResolverIdle ==
    [pc |-> "idle", uniquePools |-> <<>>, idx |-> 0, poolMap |-> <<>>,
     poolCache |-> <<>>, tick |-> 0, callsLeft |-> 0,
     positions |-> <<>>, rpc |-> {}, checked |-> <<>>, basicsOk |-> {}, failed |-> {},
     symbolFailed |-> {}, threw |-> {}]

\* the loop `for (const poolAddress of uniquePools)` up to the next await:
\* fetchPoolData returns a cached pool at once, otherwise it makes the pool calls
RECURSIVE BeginPool(_, _)
BeginPool(r, time) ==
    IF r.idx > Len(r.uniquePools) THEN [r EXCEPT !.pc = "returned"]
    ELSE LET poolAddress == r.uniquePools[r.idx]
             cached == CacheGet(r.poolCache, poolAddress, time)
             \* history: what the cache held for the pool, and for how long
             note == [hit |-> cached.hit,
                      time |-> time,
                      age |-> IF poolAddress \in DOMAIN r.poolCache
                              THEN time - (r.poolCache[poolAddress].expiry - CacheTtlMs)
                              ELSE -1,
                      value |-> IF poolAddress \in DOMAIN r.poolCache
                                THEN r.poolCache[poolAddress].value ELSE <<>>,
                      afterThrow |-> poolAddress \in r.threw]
             r1 == [r EXCEPT !.poolCache = cached.data,
                             !.checked = [k \in (DOMAIN r.checked) \cup {poolAddress} |->
                                             IF k = poolAddress THEN note ELSE r.checked[k]]]
         IN  IF cached.hit
             THEN BeginPool([r1 EXCEPT
                     !.poolMap = [k \in (DOMAIN r.poolMap) \cup {poolAddress} |->
                                     IF k = poolAddress THEN cached.value ELSE r.poolMap[k]],
                     !.idx = @ + 1], time)
             ELSE [r1 EXCEPT !.pc = "basics",
                             !.rpc = @ \cup {<<poolAddress, c>> : c \in BasicsCalls}]

\* mutant: a pool whose calls failed is cached as a pool with tick 0
AfterPoolError_Cached(r, time) ==
    LET poolAddress == r.uniquePools[r.idx]
    IN  BeginPool([r EXCEPT
            !.poolCache = CacheSet(@, poolAddress, PoolData(poolAddress, 0), time),
            !.failed = @ \cup {poolAddress},
            !.threw = @ \cup {poolAddress},
            !.idx = @ + 1], time)

\* mutant: a pool whose calls failed is given an entry with tick 0
AfterPoolError_Placeholder(r, time) ==
    LET poolAddress == r.uniquePools[r.idx]
    IN  BeginPool([r EXCEPT
            !.poolMap = [k \in (DOMAIN r.poolMap) \cup {poolAddress} |->
                            IF k = poolAddress THEN PoolData(poolAddress, 0)
                            ELSE r.poolMap[k]],
            !.failed = @ \cup {poolAddress},
            !.idx = @ + 1], time)

\* fetchPoolData throws; the `catch` of fetchPoolsForPositions logs it and the
\* loop goes on to the next pool
AfterPoolError(r, time) ==
    BeginPool([r EXCEPT !.failed = @ \cup {r.uniquePools[r.idx]},
                        !.threw = @ \cup {r.uniquePools[r.idx]},
                        !.idx = @ + 1], time)

\* fetchPoolsForPositions(positions) is called
ResolveStart ==
    /\ resolver.pc \in {"idle", "returned"}
    /\ resolver.callsLeft > 0
    /\ \E lps \in ResolveInputs :
          resolver' = BeginPool([resolver EXCEPT
                                   !.positions = lps,
                                   !.uniquePools = UniquePools(lps),
                                   !.idx = 1,
                                   !.poolMap = <<>>,
                                   !.callsLeft = @ - 1,
                                   !.rpc = {}, !.checked = <<>>,
                                   !.basicsOk = {}, !.failed = {},
                                   !.symbolFailed = {}], now)
    /\ UNCHANGED <<monitorVars, rangeIn, rangeOut, scenario, fetcher, utilVars>>

\* the first Promise.all resolves: all five pool calls succeeded; the token calls are made
BasicsResolve ==
    /\ resolver.pc = "basics"
    /\ \E tick \in PoolTicks :
          LET poolAddress == resolver.uniquePools[resolver.idx]
          IN  resolver' = [resolver EXCEPT
                             !.pc = "tokens",
                             !.tick = tick,
                             !.basicsOk = @ \cup {poolAddress},
                             !.rpc = @ \cup {<<poolAddress, c>> : c \in TokenCalls}]
    /\ UNCHANGED <<monitorVars, rangeIn, rangeOut, scenario, fetcher, utilVars>>

\* the first Promise.all rejects: one of the pool calls failed
BasicsReject ==
    /\ resolver.pc = "basics"
    /\ resolver' = AfterPoolError(resolver, now)
    /\ UNCHANGED <<monitorVars, rangeIn, rangeOut, scenario, fetcher, utilVars>>

\* the second Promise.all resolves: the pool is cached and returned
TokensResolve ==
    /\ resolver.pc = "tokens"
    /\ LET poolAddress == resolver.uniquePools[resolver.idx]
           poolData == PoolData(poolAddress, resolver.tick)
       IN  resolver' = BeginPool([resolver EXCEPT
                          !.poolCache = CacheSet(@, poolAddress, poolData, now),
                          !.poolMap = [k \in (DOMAIN resolver.poolMap) \cup {poolAddress} |->
                                          IF k = poolAddress THEN poolData
                                          ELSE resolver.poolMap[k]],
                          !.tick = 0,
                          !.threw = @ \ {poolAddress},
                          !.idx = @ + 1], now)
    /\ UNCHANGED <<monitorVars, rangeIn, rangeOut, scenario, fetcher, utilVars>>

\* the second Promise.all rejects: one of the token calls failed
TokensReject ==
    /\ resolver.pc = "tokens"
    /\ \E call \in TokenCalls :
          resolver' = AfterPoolError([resolver EXCEPT
                          !.tick = 0,
                          !.symbolFailed = IF call \in {"symbol0", "symbol1"}
                                           THEN @ \cup {resolver.uniquePools[resolver.idx]}
                                           ELSE @], now)
    /\ UNCHANGED <<monitorVars, rangeIn, rangeOut, scenario, fetcher, utilVars>>

\* time passes, during a call or between calls
ResolverTick ==
    /\ ticksLeft > 0
    /\ ticksLeft' = ticksLeft - 1
    /\ now' = now + ResolverTimeStep
    /\ UNCHANGED <<previousStates, isShuttingDown, monitoringInterval, mainPc, cycles,
                   wallet, failuresLeft, cyclesLeft, lastEval, lastOorSent, observed,
                   overlapSeen, rangeIn, rangeOut, scenario, serviceVars>>

NextResolve ==
    \/ ResolveStart
    \/ BasicsResolve
    \/ BasicsReject
    \/ TokensResolve
    \/ TokensReject
    \/ ResolverTick

-----------------------------------------------------------------------------
(* RateLimiter (utils/rate-limiter.ts).  One shared instance; an execute     *)
(* call is cut at its awaits: the delay of waitForNextSlot, the wrapped      *)
(* operation, and the backoff delay.  Several execute calls may be in        *)
(* progress together (fetchPoolData starts five under one Promise.all).      *)

\* constructor defaults
minDelayMs == 100
maxRetries == 3
backoffMultiplier == 2

\* callers that may have an execute call in progress together, execute calls
\* in a run of the limiter, and clock advances
LimiterCallers == 2
LimiterCalls == 2
LimiterTicks == 4

LimiterCallerIds == 1..LimiterCallers

\* a clock advance that wakes no timer: half the minimum delay
LimiterTimeStep == minDelayMs \div 2

\* the errors the wrapped operation may reject with; the message is its words,
\* and the code "429" stands for the number 429
RpcErrors ==
    { [code |-> "CALL_EXCEPTION", message |-> <<"execution", "reverted">>],
      [code |-> "429",            message |-> <<"request", "failed">>],
      [code |-> "RATE_LIMIT",     message |-> <<"request", "failed">>],
      [code |-> "SERVER_ERROR",   message |-> <<"exceeded", "rate", "limit">>],
      [code |-> "SERVER_ERROR",   message |-> <<"429", "Too", "Many", "Requests">>] }

NoError == [code |-> "none", message |-> <<>>]

\* String.prototype.includes, on words
Includes(message, words) ==
    \E i \in 1..(Len(message) - Len(words) + 1) :
        SubSeq(message, i, i + Len(words) - 1) = words

\* mutant: every error is taken for a rate-limit error
isRateLimitError_Any(error) == TRUE

\* `isRateLimitError` in the catch block of execute
isRateLimitError(error) ==
    \/ error.code = "RATE_LIMIT"
    \/ error.code = "429"
    \/ Includes(error.message, <<"rate", "limit">>)
    \/ Includes(error.message, <<"Too", "Many", "Requests">>)

\* an execute call that has not been made
CallIdle ==
    [pc |-> "idle", attempt |-> 0, currentDelay |-> 0, wakeAt |-> 0,
     lastError |-> NoError, thrown |-> NoError,
     \* history: invocations of the operation, the backoff delays waited, the
     \* error of the latest failed invocation, the error the latest retry followed
     \* and the time of the failure the latest backoff followed
     invoked |-> 0, backoffs |-> <<>>, latest |-> NoError, retriedOn |-> NoError,
     failedAt |-> 0]

\* the end of waitForNextSlot and `return await fn()`: lastCallTime is
\* stamped and the operation is dispatched
Dispatch(rl, c, time) ==
    [rl EXCEPT !.lastCallTime = time,
               !.log = Append(@, time),
               !.calls[c].pc = "fn",
               !.calls[c].invoked = @ + 1]

\* waitForNextSlot up to its await: sleep for the rest of the minimum delay,
\* or go on at once
waitForNextSlot(rl, c, time) ==
    LET timeSinceLastCall == time - rl.lastCallTime
    IN  IF timeSinceLastCall < minDelayMs
        THEN [rl EXCEPT !.calls[c].pc = "slot",
                        !.calls[c].wakeAt = time + (minDelayMs - timeSinceLastCall)]
        ELSE Dispatch(rl, c, time)

\* mutant: the loop makes one more pass
InLoop_OneMore(attempt) == attempt <= maxRetries + 1

\* `attempt <= this.maxRetries`, the condition of the loop
InLoop(attempt) == attempt <= maxRetries

\* `attempt++` and the next pass of the loop, or the `throw lastError` after it
NextPass(rl, c, time) ==
    LET next == [rl EXCEPT !.calls[c].attempt = @ + 1]
    IN  IF InLoop(next.calls[c].attempt)
        THEN waitForNextSlot(next, c, time)
        ELSE [next EXCEPT !.calls[c].pc = "rejected",
                          !.calls[c].thrown = rl.calls[c].lastError]

\* `lastError = error`
NoteError(call, error) == [call EXCEPT !.lastError = error, !.latest = error]

\* the catch block of execute
AfterFailure(rl, c, error, time) ==
    LET failed == [rl EXCEPT !.calls[c] = NoteError(@, error)]
        call == rl.calls[c]
    IN  IF isRateLimitError(error) /\ call.attempt < maxRetries
        THEN [failed EXCEPT !.calls[c].pc = "backoff",
                            !.calls[c].wakeAt = time + call.currentDelay,
                            !.calls[c].backoffs = Append(@, call.currentDelay),
                            !.calls[c].failedAt = time]
        ELSE IF ~isRateLimitError(error)
        THEN [failed EXCEPT !.calls[c].pc = "rejected", !.calls[c].thrown = error]
        ELSE NextPass(failed, c, time)

\* mutant: the delay grows by the minimum delay
GrowDelay_Linear(currentDelay) == currentDelay + minDelayMs

\* `currentDelay *= this.backoffMultiplier`
GrowDelay(currentDelay) == currentDelay * backoffMultiplier

\* rateLimiter.execute(fn) is called: the first pass of the loop up to its await;
\* the calls are numbered in the order they are made
ExecuteStart(c) ==
    /\ rateLimiter.calls[c].pc \in {"idle", "resolved", "rejected"}
    /\ c <= rateLimiter.callers
    /\ rateLimiter.callsLeft > 0
    /\ c > 1 => rateLimiter.calls[c - 1].pc # "idle"
    /\ rateLimiter' = waitForNextSlot(
            [rateLimiter EXCEPT
                !.callsLeft = @ - 1,
                !.calls[c] = [CallIdle EXCEPT !.currentDelay = minDelayMs]], c, now)
    /\ UNCHANGED <<monitorVars, rangeIn, rangeOut, scenario, rpcManager, fetcher, resolver,
                   ttlCache, batchProvider>>

\* the timer of waitForNextSlot fires
SlotWakes(c) ==
    /\ rateLimiter.calls[c].pc = "slot"
    /\ now >= rateLimiter.calls[c].wakeAt
    /\ rateLimiter' = Dispatch(rateLimiter, c, now)
    /\ UNCHANGED <<monitorVars, rangeIn, rangeOut, scenario, rpcManager, fetcher, resolver,
                   ttlCache, batchProvider>>

\* the wrapped operation resolves: execute returns its result
FnResolves(c) ==
    /\ rateLimiter.calls[c].pc = "fn"
    /\ rateLimiter' = [rateLimiter EXCEPT !.calls[c].pc = "resolved"]
    /\ UNCHANGED <<monitorVars, rangeIn, rangeOut, scenario, rpcManager, fetcher, resolver,
                   ttlCache, batchProvider>>

\* the wrapped operation rejects
FnRejects(c) ==
    /\ rateLimiter.calls[c].pc = "fn"
    /\ \E error \in RpcErrors : rateLimiter' = AfterFailure(rateLimiter, c, error, now)
    /\ UNCHANGED <<monitorVars, rangeIn, rangeOut, scenario, rpcManager, fetcher, resolver,
                   ttlCache, batchProvider>>

\* the backoff timer fires: the delay grows and the next pass of the loop begins
BackoffWakes(c) ==
    /\ rateLimiter.calls[c].pc = "backoff"
    /\ now >= rateLimiter.calls[c].wakeAt
    /\ rateLimiter' = NextPass(
            [rateLimiter EXCEPT
                !.calls[c].currentDelay = GrowDelay(@),
                !.calls[c].retriedOn = rateLimiter.calls[c].lastError], c, now)
    /\ UNCHANGED <<monitorVars, rangeIn, rangeOut, scenario, rpcManager, fetcher, resolver,
                   ttlCache, batchProvider>>

\* time passes: by a fraction of the minimum delay, or up to a pending timer
LimiterTick ==
    /\ ticksLeft > 0
    /\ ticksLeft' = ticksLeft - 1
    /\ \/ now' = now + LimiterTimeStep
       \/ \E c \in LimiterCallerIds :
             /\ rateLimiter.calls[c].pc \in {"slot", "backoff"}
             /\ rateLimiter.calls[c].wakeAt > now
             /\ now' = rateLimiter.calls[c].wakeAt
    /\ UNCHANGED <<previousStates, isShuttingDown, monitoringInterval, mainPc, cycles,
                   wallet, failuresLeft, cyclesLeft, lastEval, lastOorSent, observed,
                   overlapSeen, rangeIn, rangeOut, scenario, serviceVars>>

NextLimiter ==
    \/ \E c \in LimiterCallerIds : ExecuteStart(c)
    \/ \E c \in LimiterCallerIds : SlotWakes(c)
    \/ \E c \in LimiterCallerIds : FnResolves(c)
    \/ \E c \in LimiterCallerIds : FnRejects(c)
    \/ \E c \in LimiterCallerIds : BackoffWakes(c)
    \/ LimiterTick

-----------------------------------------------------------------------------
(* Cache (utils/cache.ts): one instance with the configured TTL, called with *)
(* get, has and set as time passes.  CacheGet, CacheSet and CacheLive above  *)
(* are its methods.                                                          *)

\* calls on the cache and clock advances in a run
CacheCalls == 3
CacheTicks == 3

CacheKeys == {"0xA", "0xB"}
CacheValues == PoolTicks

\* history: the latest call, what it returned, and what the Map held for its
\* key when it was made (age: time since the key was last set, -1 if never)
NoCacheOp ==
    [kind |-> "none", key |-> "", time |-> 0, had |-> FALSE, age |-> -1,
     stored |-> 0, hit |-> FALSE, value |-> 0]

CacheOp(c, kind, key, time) ==
    [NoCacheOp EXCEPT
        !.kind = kind, !.key = key, !.time = time,
        !.had = key \in DOMAIN c.data,
        !.age = IF key \in DOMAIN c.setAt THEN time - c.setAt[key] ELSE -1,
        !.stored = IF key \in DOMAIN c.data THEN c.data[key].value ELSE 0]

\* cache.get(key)
CacheGetCall ==
    /\ ttlCache.callsLeft > 0
    /\ \E key \in CacheKeys :
          LET got == CacheGet(ttlCache.data, key, now)
          IN  ttlCache' = [ttlCache EXCEPT
                  !.callsLeft = @ - 1,
                  !.data = got.data,
                  !.op = [CacheOp(ttlCache, "get", key, now) EXCEPT
                             !.hit = got.hit,
                             !.value = IF got.hit THEN got.value ELSE 0]]
    /\ UNCHANGED <<monitorVars, rangeIn, rangeOut, scenario, rpcManager, fetcher, resolver,
                   rateLimiter, batchProvider>>

\* cache.has(key): `this.get(key) !== undefined`
CacheHasCall ==
    /\ ttlCache.callsLeft > 0
    /\ \E key \in CacheKeys :
          LET got == CacheGet(ttlCache.data, key, now)
          IN  ttlCache' = [ttlCache EXCEPT
                  !.callsLeft = @ - 1,
                  !.data = got.data,
                  !.op = [CacheOp(ttlCache, "has", key, now) EXCEPT !.hit = got.hit]]
    /\ UNCHANGED <<monitorVars, rangeIn, rangeOut, scenario, rpcManager, fetcher, resolver,
                   rateLimiter, batchProvider>>

\* cache.set(key, value)
CacheSetCall ==
    /\ ttlCache.callsLeft > 0
    /\ \E key \in CacheKeys, value \in CacheValues :
          ttlCache' = [ttlCache EXCEPT
              !.callsLeft = @ - 1,
              !.data = CacheSet(@, key, value, now),
              !.setAt = [k \in (DOMAIN @) \cup {key} |-> IF k = key THEN now ELSE @[k]],
              !.op = [CacheOp(ttlCache, "set", key, now) EXCEPT !.value = value]]
    /\ UNCHANGED <<monitorVars, rangeIn, rangeOut, scenario, rpcManager, fetcher, resolver,
                   rateLimiter, batchProvider>>

\* time passes: half the TTL
CacheTick ==
    /\ ttlCache.callsLeft > 0
    /\ ticksLeft > 0
    /\ ticksLeft' = ticksLeft - 1
    /\ now' = now + ResolverTimeStep
    /\ UNCHANGED <<previousStates, isShuttingDown, monitoringInterval, mainPc, cycles,
                   wallet, failuresLeft, cyclesLeft, lastEval, lastOorSent, observed,
                   overlapSeen, rangeIn, rangeOut, scenario, serviceVars>>

NextCache == CacheGetCall \/ CacheHasCall \/ CacheSetCall \/ CacheTick

-----------------------------------------------------------------------------
(* BatchProvider (utils/batch-provider.ts).  execute walks the calls in       *)
(* chunks of batchSize; processChunk encodes the chunk's calls, posts one     *)
(* JSON-RPC batch and turns the response into one result per call.  The call  *)
(* is cut at the await of each chunk's request.                               *)

\* calls handed to execute and the largest batchSize argument
MaxCalls == 3
MaxBatchSize == 2

BatchSizes == 1..MaxBatchSize

\* any integer may be handed over as batchSize
AnyBatchSizes == (0 - MaxBatchSize)..MaxBatchSize

\* requests followed in one execute call (a call with batchSize >= 1 sends at
\* most one request per call of the list)
MaxRequests == MaxCalls + 1

\* a BatchCall: its target tells the calls apart; `encodable` is whether
\* iface.encodeFunctionData accepts its method and params
BatchCalls(n, bad) == [k \in 1..n |-> [target |-> k, encodable |-> k # bad]]

\* the call lists: up to MaxCalls calls, at most one of them not encodable
CallLists == {BatchCalls(n, bad) : n \in 0..MaxCalls, bad \in 0..MaxCalls}

\* BatchResult: data is the decoded value (here the target that was called), 0 on failure
Failure == [success |-> FALSE, data |-> 0]
Success(data) == [success |-> TRUE, data |-> data]

\* Array.prototype.slice: an index below 0 counts from the end of the array,
\* and indices are clamped to 0..length
SliceIndex(len, k) ==
    IF k < 0 THEN (IF len + k > 0 THEN len + k ELSE 0)
    ELSE (IF k < len THEN k ELSE len)

\* calls.slice(from, to)
Slice(calls, from, to) ==
    LET first == SliceIndex(Len(calls), from)
        end == SliceIndex(Len(calls), to)
    IN  IF first < end THEN SubSeq(calls, first + 1, end) ELSE <<>>

\* the JSON-RPC payload of a chunk: `id: index`, `to: call.target`
Payload(chunk) == [j \in 1..Len(chunk) |-> [id |-> j - 1, to |-> chunk[j].target]]

\* what a node may answer for one request of the payload: its result (the
\* value of the target called), an RPC error, or a result that does not decode
EntryKinds == {"result", "error", "undecodable"}
Entries(chunk) ==
    {[id |-> j - 1, kind |-> kind, result |-> chunk[j].target] :
        j \in 1..Len(chunk), kind \in EntryKinds}

\* the settlements of a chunk's request other than an array of responses: fetch
\* rejects, a non-2xx status, a body that is not JSON, a JSON object with or
\* without `error`, and an array holding a null
TransportKinds ==
    {"network", "http", "malformed", "errorObject", "otherObject", "nullEntry"}

\* every settlement of a chunk's request: an array holds at most one entry per
\* call of the chunk, in any order, possibly with repeated ids
Responses(chunk) ==
    {[kind |-> kind, entries |-> <<>>] : kind \in TransportKinds}
    \cup {[kind |-> "array", entries |-> entries] :
            entries \in UNION {[1..m -> Entries(chunk)] : m \in 0..Len(chunk)}}

\* history: no chunk has settled yet
NoChunk == [kind |-> "none", entries |-> <<>>, start |-> 0, len |-> 0]

\* no BatchProvider.execute call is running
BatchIdle ==
    [pc |-> "idle", calls |-> <<>>, batchSize |-> 0, i |-> 0, results |-> <<>>,
     sent |-> <<>>, last |-> NoChunk, before |-> <<>>, transportFailed |-> {}]

\* mutant: responses are matched to calls by their place in the array
ResponseMap_ByPosition(entries) == [id \in 0..(Len(entries) - 1) |-> entries[id + 1]]

\* `new Map(jsonParams.map((r) => [r.id, r]))`: the last entry of an id wins
ResponseMap(entries) ==
    [id \in {entries[k].id : k \in 1..Len(entries)} |->
        LET k == CHOOSE k \in 1..Len(entries) :
                    /\ entries[k].id = id
                    /\ \A l \in (k + 1)..Len(entries) : entries[l].id # id
        IN  entries[k]]

\* the body of `calls.map((call, index) => ...)` for one call
DecodeEntry(responseMap, index) ==
    IF index \notin DOMAIN responseMap THEN Failure      \* "No response for call"
    ELSE IF responseMap[index].kind = "error" THEN Failure
    ELSE IF responseMap[index].kind = "undecodable" THEN Failure
    ELSE Success(responseMap[index].result)

\* mutant: one entry that does not decode fails the whole chunk
DecodeChunk_AllOrNothing(chunk, entries) ==
    LET responseMap == ResponseMap(entries)
    IN  IF \E j \in 1..Len(chunk) : ~DecodeEntry(responseMap, j - 1).success
        THEN [j \in 1..Len(chunk) |-> Failure]
        ELSE [j \in 1..Len(chunk) |-> DecodeEntry(responseMap, j - 1)]

\* step 3 of processChunk: one result per call, found by id
DecodeChunk(chunk, entries) ==
    LET responseMap == ResponseMap(entries)
    IN  [j \in 1..Len(chunk) |-> DecodeEntry(responseMap, j - 1)]

\* mutant: a failed request yields no results
TransportFailure_Empty(chunk) == <<>>

\* `calls.map(() => ({ success: false, ... }))`, for a failed request
TransportFailure(chunk) == [j \in 1..Len(chunk) |-> Failure]

\* processChunk after its request has settled
ChunkResults(chunk, response) ==
    IF response.kind = "array" THEN DecodeChunk(chunk, response.entries)
    ELSE TransportFailure(chunk)

\* the head of the loop of execute and processChunk up to its await: the
\* chunk is encoded and posted; encodeFunctionData throws outside any `try`
NextChunk(b) ==
    IF ~(b.i < Len(b.calls)) THEN [b EXCEPT !.pc = "returned"]
    ELSE LET chunk == Slice(b.calls, b.i, b.i + b.batchSize)
         IN  IF \E j \in 1..Len(chunk) : ~chunk[j].encodable
             THEN [b EXCEPT !.pc = "rejected"]
             ELSE [b EXCEPT !.pc = "fetch", !.sent = Append(@, Payload(chunk))]

\* batchProvider.execute(calls, batchSize) is called
BatchExecute ==
    /\ batchProvider.pc = "idle"
    /\ \E calls \in CallLists, batchSize \in BatchSizes :
          batchProvider' = NextChunk([BatchIdle EXCEPT !.calls = calls,
                                                       !.batchSize = batchSize])
    /\ UNCHANGED <<monitorVars, rangeIn, rangeOut, scenario, rpcManager, fetcher, resolver,
                   rateLimiter, ttlCache>>

\* batchProvider.execute(calls, batchSize) is called with any integer batchSize
BatchExecuteAny ==
    /\ batchProvider.pc = "idle"
    /\ \E calls \in CallLists, batchSize \in AnyBatchSizes :
          batchProvider' = NextChunk([BatchIdle EXCEPT !.calls = calls,
                                                       !.batchSize = batchSize])
    /\ UNCHANGED <<monitorVars, rangeIn, rangeOut, scenario, rpcManager, fetcher, resolver,
                   rateLimiter, ttlCache>>

\* the request of the chunk at i settles: its results are copied into
\* `results` and the loop goes on
ChunkSettles ==
    /\ batchProvider.pc = "fetch"
    /\ Len(batchProvider.sent) <= MaxRequests
    /\ LET b == batchProvider
           chunk == Slice(b.calls, b.i, b.i + b.batchSize)
       IN  \E response \in Responses(chunk) :
             LET chunkResults == ChunkResults(chunk, response)
                 assigned == {b.i + j : j \in 1..Len(chunkResults)}
             IN  batchProvider' = NextChunk([b EXCEPT
                     !.results = [k \in (DOMAIN b.results) \cup assigned |->
                                     IF k \in assigned THEN chunkResults[k - b.i]
                                     ELSE b.results[k]],
                     !.i = @ + b.batchSize,
                     !.last = [kind |-> response.kind, entries |-> response.entries,
                               start |-> b.i, len |-> Len(chunk)],
                     !.before = b.results,
                     !.transportFailed = IF response.kind = "array" THEN @
                                         ELSE @ \cup {b.i}])
    /\ UNCHANGED <<monitorVars, rangeIn, rangeOut, scenario, rpcManager, fetcher, resolver,
                   rateLimiter, ttlCache>>

NextBatch == BatchExecute \/ ChunkSettles

NextBatchAny == BatchExecuteAny \/ ChunkSettles

-----------------------------------------------------------------------------
(* RpcManager (services/rpc-manager.ts).  initialize and refreshRpcNow await *)
(* the discovery (fetchBaseRpc); handleRpcError awaits refreshRpcNow when the *)
(* failed endpoint is the only one known.  Operations are made one after the  *)
(* other.                                                                     *)

\* operations in a run of the manager
RpcOps == 4

\* config.rpcUrl, handed to initialize as the fallback
FallbackRpc == "fallback"

\* what fetchBaseRpc may find: nothing (null), or a list of distinct endpoints
\* (it is built from a Set)
Discoveries == {<<>>, <<"rpc1">>, <<"rpc1", "rpc2">>, <<"rpc3", "rpc1", "rpc2">>}

\* the endpoints handleRpcError may be called for
Endpoints == {"rpc1", "rpc2", "rpc3", FallbackRpc}

\* the fields of the manager an operation may change
RpcFields(r) ==
    [currentRpc |-> r.currentRpc, allRpcAddresses |-> r.allRpcAddresses,
     currentRpcIndex |-> r.currentRpcIndex, failureCount |-> r.failureCount]

\* history: no operation has been made
NoRpcOp == [kind |-> "none", failedRpc |-> "", found |-> FALSE]

\* the manager as constructed; currentRpc "null" is null
RpcIdle ==
    [pc |-> "idle", currentRpc |-> "null", allRpcAddresses |-> <<>>,
     currentRpcIndex |-> 0, isInitialized |-> FALSE, failureCount |-> <<>>,
     opsLeft |-> 0,
     \* history: the latest operation, the fields before it, and the endpoints
     \* switched to by the handleRpcError calls for the current endpoint made
     \* in a row since the list last changed (with the fields before the first)
     op |-> NoRpcOp, before |-> <<>>, visited |-> <<>>, streakFrom |-> <<>>]

\* `this.failureCount.get(rpc) || 0`
getFailureCount(failureCount, rpc) ==
    IF rpc \in DOMAIN failureCount THEN failureCount[rpc] ELSE 0

\* mutant: the switch stops at the last endpoint of the list
NextIndex_NoWrap(index, length) == IF index + 1 < length THEN index + 1 ELSE index

\* `(this.currentRpcIndex + 1) % this.allRpcAddresses.length`
NextIndex(index, length) == (index + 1) % length

\* an operation begins: the history is set
BeginOp(r, kind, failedRpc) ==
    [r EXCEPT !.opsLeft = @ - 1,
              !.op = [kind |-> kind, failedRpc |-> failedRpc, found |-> FALSE],
              !.before = RpcFields(r)]

\* the fallback branch of initialize
InitializeFallback(r, fallbackRpc) ==
    [r EXCEPT !.currentRpc = fallbackRpc,
              !.allRpcAddresses = <<fallbackRpc>>,
              !.isInitialized = TRUE]

\* initialize after `await this.fetchBaseRpc()`
AfterInitializeDiscovery(r, rpcList) ==
    IF Len(rpcList) > 0
    THEN [r EXCEPT !.allRpcAddresses = rpcList,
                   !.currentRpc = rpcList[1],
                   !.currentRpcIndex = 0,
                   !.isInitialized = TRUE]
    ELSE InitializeFallback(r, FallbackRpc)

\* refreshRpcNow after `await this.fetchBaseRpc()`
AfterRefreshDiscovery(r, rpcList) ==
    IF Len(rpcList) > 0
    THEN [r EXCEPT !.allRpcAddresses = rpcList,
                   !.currentRpcIndex = 0,
                   !.currentRpc = rpcList[1],
                   !.failureCount = <<>>]
    ELSE r

\* rpcManager.initialize(fallbackRpc) is called
RpcInitialize ==
    /\ rpcManager.pc = "idle"
    /\ rpcManager.opsLeft > 0
    /\ rpcManager' = [BeginOp(rpcManager, "initialize", "") EXCEPT
                          !.pc = "initialize", !.visited = <<>>, !.streakFrom = <<>>]
    /\ UNCHANGED <<monitorVars, rangeIn, rangeOut, scenario, fetcher, resolver,
                   rateLimiter, ttlCache, batchProvider>>

\* rpcManager.refreshRpcNow() is called
RpcRefreshNow ==
    /\ rpcManager.pc = "idle"
    /\ rpcManager.opsLeft > 0
    /\ rpcManager' = [BeginOp(rpcManager, "refresh", "") EXCEPT
                          !.pc = "refresh", !.visited = <<>>, !.streakFrom = <<>>]
    /\ UNCHANGED <<monitorVars, rangeIn, rangeOut, scenario, fetcher, resolver,
                   rateLimiter, ttlCache, batchProvider>>

\* rpcManager.handleRpcError(failedRpc) is called: up to its return, or up to
\* the await of refreshRpcNow
RpcHandleError ==
    /\ rpcManager.pc = "idle"
    /\ rpcManager.opsLeft > 0
    /\ \E failedRpc \in Endpoints :
          LET r == BeginOp(rpcManager, "handleRpcError", failedRpc)
              counted == [r EXCEPT
                  !.failureCount =
                      [k \in (DOMAIN @) \cup {failedRpc} |->
                          IF k = failedRpc THEN getFailureCount(r.failureCount, failedRpc) + 1
                          ELSE @[k]]]
          IN  IF failedRpc = r.currentRpc
              THEN IF Len(r.allRpcAddresses) > 1
                   THEN LET index == NextIndex(r.currentRpcIndex, Len(r.allRpcAddresses))
                        IN  rpcManager' = [counted EXCEPT
                                !.currentRpcIndex = index,
                                !.currentRpc = r.allRpcAddresses[index + 1],
                                !.streakFrom = IF r.visited = <<>> THEN RpcFields(rpcManager)
                                               ELSE @,
                                !.visited = Append(@, r.allRpcAddresses[index + 1])]
                   ELSE rpcManager' = [counted EXCEPT !.pc = "refresh",
                                                      !.visited = <<>>, !.streakFrom = <<>>]
              ELSE rpcManager' = [counted EXCEPT !.visited = <<>>, !.streakFrom = <<>>]
    /\ UNCHANGED <<monitorVars, rangeIn, rangeOut, scenario, fetcher, resolver,
                   rateLimiter, ttlCache, batchProvider>>

\* fetchBaseRpc settles, for initialize or for refreshRpcNow
DiscoverySettles ==
    /\ rpcManager.pc \in {"initialize", "refresh"}
    /\ \E rpcList \in Discoveries :
          LET r == [rpcManager EXCEPT !.pc = "idle", !.op.found = Len(rpcList) > 0]
          IN  rpcManager' = IF rpcManager.pc = "initialize"
                            THEN AfterInitializeDiscovery(r, rpcList)
                            ELSE AfterRefreshDiscovery(r, rpcList)
    /\ UNCHANGED <<monitorVars, rangeIn, rangeOut, scenario, fetcher, resolver,
                   rateLimiter, ttlCache, batchProvider>>

NextRpc == RpcInitialize \/ RpcRefreshNow \/ RpcHandleError \/ DiscoverySettles

-----------------------------------------------------------------------------
(* The utilities at rest *)

\* no RateLimiter.execute call has been made: `lastCallTime: number = 0`
LimiterIdle ==
    [lastCallTime |-> 0, calls |-> [c \in LimiterCallerIds |-> CallIdle], log |-> <<>>,
     callers |-> 0, callsLeft |-> 0]

\* `data: Map<...> = new Map()`, no call made yet
CacheIdle == [data |-> <<>>, op |-> NoCacheOp, setAt |-> <<>>, callsLeft |-> 0]

UtilsIdle ==
    /\ rateLimiter = LimiterIdle
    /\ ttlCache = CacheIdle
    /\ batchProvider = BatchIdle
    /\ rpcManager = RpcIdle

-----------------------------------------------------------------------------
(* State and actions *)

Machine(c) ==
    [id |-> c, cy |-> cycles[c], ps |-> previousStates, t |-> now,
     le |-> lastEval, oor |-> lastOorSent, obs |-> observed]

\* write a segment's result back
Commit(c, m) ==
    /\ cycles' = [cycles EXCEPT ![c] = m.cy]
    /\ previousStates' = m.ps
    /\ lastEval' = m.le
    /\ lastOorSent' = m.oor
    /\ observed' = m.obs

Running == mainPc # "exited"

\* the checkAndAlert invocation of slot c has started and not yet returned
InFlight(c) == cycles[c].pc \notin {"idle", "done"}

InitMonitor ==
    /\ previousStates = <<>>
    /\ now = StartTime
    /\ isShuttingDown = FALSE
    /\ monitoringInterval = FALSE
    /\ mainPc = "initialCheck"
    \* runInitialCheck has called checkAndAlert, which awaits monitorPositions
    /\ cycles = [c \in CycleIds |-> IF c = 0 THEN [IdleCycle EXCEPT !.pc = "fetch"]
                                             ELSE IdleCycle]
    /\ lastEval = NoEval
    /\ lastOorSent = [k \in Keys |-> 0]
    /\ observed = {}
    /\ overlapSeen = FALSE

Init ==
    /\ InitMonitor
    /\ wallet = SubSeq(PositionSlots, 1, 1)
    /\ failuresLeft = 0
    /\ fetcher = FetcherIdle
    /\ resolver = ResolverIdle
    /\ UtilsIdle
    /\ cyclesLeft = MaxCycles
    /\ ticksLeft = MaxTicks
    /\ rangeIn = <<>>
    /\ rangeOut = <<>>
    /\ scenario = <<>>

\* time passes
Tick ==
    /\ Running
    /\ ticksLeft > 0
    /\ ticksLeft' = ticksLeft - 1
    /\ now' = now + TimeStep
    /\ UNCHANGED <<previousStates, isShuttingDown, monitoringInterval, mainPc, cycles,
                   wallet, failuresLeft, cyclesLeft, lastEval, lastOorSent, observed, overlapSeen>>
    /\ UNCHANGED <<rangeIn, rangeOut, scenario, serviceVars>>

\* index.ts: the setInterval callback starts; it calls checkAndAlert, which
\* suspends on `await monitorPositions()`
TimerFires(c) ==
    /\ Running
    /\ monitoringInterval
    /\ ~isShuttingDown
    /\ cycles[c].pc = "idle"
    /\ \A d \in CallbackIds : d < c => cycles[d].pc # "idle"
    /\ cyclesLeft > 0
    /\ cyclesLeft' = cyclesLeft - 1
    /\ cycles' = [cycles EXCEPT ![c].pc = "fetch"]
    /\ overlapSeen' = (overlapSeen \/ \E d \in CycleIds : d # c /\ InFlight(d))
    /\ UNCHANGED <<previousStates, now, isShuttingDown, monitoringInterval, mainPc,
                   wallet, failuresLeft, ticksLeft, lastEval, lastOorSent, observed>>
    /\ UNCHANGED <<rangeIn, rangeOut, scenario, serviceVars>>

\* monitorPositions resolves; checkAndAlert runs on to its first await or its end
MonitorPositionsResolves(c) ==
    /\ Running
    /\ cycles[c].pc = "fetch"
    /\ \E choice \in FetchChoices, poolMap \in PoolMaps :
          LET clPositions == FetchedPositions(choice, 1)
              statuses == IF Len(clPositions) = 0 THEN <<>>
                          ELSE monitorPositions(clPositions, poolMap)
          IN  Commit(c, AfterMonitorPositions(NoteSkipped(Machine(c), clPositions, poolMap),
                                              statuses))
    /\ UNCHANGED <<now, isShuttingDown, monitoringInterval, mainPc,
                   wallet, failuresLeft, cyclesLeft, ticksLeft, overlapSeen>>
    /\ UNCHANGED <<rangeIn, rangeOut, scenario, serviceVars>>

\* monitorPositions rejects (an RPC error): checkAndAlert rejects; the interval
\* callback logs it, main() treats it as fatal and exits
MonitorPositionsRejects(c) ==
    /\ Running
    /\ cycles[c].pc = "fetch"
    /\ cycles' = [cycles EXCEPT ![c] = IdleCycle]
    /\ mainPc' = IF c = 0 THEN "exited" ELSE mainPc
    /\ UNCHANGED <<previousStates, now, isShuttingDown, monitoringInterval,
                   wallet, failuresLeft, cyclesLeft, ticksLeft, lastEval, lastOorSent, observed, overlapSeen>>
    /\ UNCHANGED <<rangeIn, rangeOut, scenario, serviceVars>>

\* the awaited notifier call settles, with true or (while the run's budget of
\* failures lasts) false; checkAndAlert runs on to its next await or its end
SendSettles(c) ==
    /\ Running
    /\ cycles[c].pc \in {"sendUnstaked", "sendOutOfRange", "sendBackInRange"}
    /\ \E ok \in BOOLEAN :
          /\ ok \/ failuresLeft > 0
          /\ failuresLeft' = IF ok THEN failuresLeft ELSE failuresLeft - 1
          /\ Commit(c, AfterSend([Machine(c) EXCEPT !.cy.pc = "run"], cycles[c].pc, ok))
    /\ UNCHANGED <<now, isShuttingDown, monitoringInterval, mainPc,
                   wallet, cyclesLeft, ticksLeft, overlapSeen>>
    /\ UNCHANGED <<rangeIn, rangeOut, scenario, serviceVars>>

\* index.ts runInitialCheck: checkAndAlert returned; sendStartupNotification is awaited
InitialCheckReturns ==
    /\ mainPc = "initialCheck"
    /\ cycles[0].pc = "done"
    /\ mainPc' = "startupNotification"
    /\ cycles' = [cycles EXCEPT ![0] = IdleCycle]
    /\ UNCHANGED <<previousStates, now, isShuttingDown, monitoringInterval,
                   wallet, failuresLeft, cyclesLeft, ticksLeft, lastEval, lastOorSent, observed, overlapSeen>>
    /\ UNCHANGED <<rangeIn, rangeOut, scenario, serviceVars>>

\* index.ts startMonitoring: the interval timer is armed
StartMonitoring ==
    /\ mainPc = "startupNotification"
    /\ mainPc' = "monitoring"
    /\ monitoringInterval' = TRUE
    /\ UNCHANGED <<previousStates, now, isShuttingDown, cycles,
                   wallet, failuresLeft, cyclesLeft, ticksLeft, lastEval, lastOorSent, observed, overlapSeen>>
    /\ UNCHANGED <<rangeIn, rangeOut, scenario, serviceVars>>

\* index.ts shutdown: SIGINT/SIGTERM clears the timer and exits the process
Shutdown ==
    /\ Running
    /\ ~isShuttingDown
    /\ isShuttingDown' = TRUE
    /\ monitoringInterval' = FALSE
    /\ mainPc' = "exited"
    /\ UNCHANGED <<previousStates, now, cycles, wallet, failuresLeft, cyclesLeft, ticksLeft, lastEval, lastOorSent, observed, overlapSeen>>
    /\ UNCHANGED <<rangeIn, rangeOut, scenario, serviceVars>>

NextMonitor ==
    \/ Tick
    \/ \E c \in CallbackIds : TimerFires(c)
    \/ \E c \in CycleIds : MonitorPositionsResolves(c)
    \/ \E c \in CycleIds : MonitorPositionsRejects(c)
    \/ \E c \in CycleIds : SendSettles(c)
    \/ InitialCheckReturns
    \/ StartMonitoring
    \/ Shutdown

Next == NextMonitor

Spec == Init /\ [][Next]_vars

\* the same program over a wallet of two positions (same id, two pools)
InitWallet ==
    /\ InitMonitor
    /\ wallet = PositionSlots
    /\ fetcher = FetcherIdle
    /\ resolver = ResolverIdle
    /\ UtilsIdle
    /\ failuresLeft = 0
    /\ cyclesLeft = WalletCycles
    /\ ticksLeft = WalletTicks
    /\ rangeIn = <<>>
    /\ rangeOut = <<>>
    /\ scenario = <<>>

SpecWallet == InitWallet /\ [][Next]_vars

\* one fetchPositions call on its own
InitFetch ==
    /\ InitMonitor
    /\ wallet = <<>>
    /\ failuresLeft = 0
    /\ cyclesLeft = 0
    /\ ticksLeft = 0
    /\ rangeIn = <<>>
    /\ rangeOut = <<>>
    /\ scenario = <<>>
    /\ fetcher = FetchStart
    /\ resolver = ResolverIdle
    /\ UtilsIdle

SpecFetch == InitFetch /\ [][NextFetch]_vars

\* the Pool Resolver on its own: a few fetchPoolsForPositions calls over time
InitResolve ==
    /\ InitMonitor
    /\ wallet = <<>>
    /\ failuresLeft = 0
    /\ fetcher = FetcherIdle
    /\ resolver = [ResolverIdle EXCEPT !.callsLeft = ResolverCalls]
    /\ UtilsIdle
    /\ cyclesLeft = 0
    /\ ticksLeft = ResolverTicks
    /\ rangeIn = <<>>
    /\ rangeOut = <<>>
    /\ scenario = <<>>

SpecResolve == InitResolve /\ [][NextResolve]_vars

\* the same wallet with notifier calls that may fail: the initial check and the
\* interval callbacks, at one clock reading
InitSends ==
    /\ InitMonitor
    /\ wallet = PositionSlots
    /\ fetcher = FetcherIdle
    /\ resolver = ResolverIdle
    /\ UtilsIdle
    /\ failuresLeft = MaxFailures
    /\ cyclesLeft = WalletCycles
    /\ ticksLeft = 0
    /\ rangeIn = <<>>
    /\ rangeOut = <<>>
    /\ scenario = <<>>

NextSends ==
    \/ \E c \in CallbackIds : TimerFires(c)
    \/ \E c \in CycleIds : MonitorPositionsResolves(c)
    \/ \E c \in CycleIds : SendSettles(c)
    \/ InitialCheckReturns
    \/ StartMonitoring

SpecSends == InitSends /\ [][NextSends]_vars

-----------------------------------------------------------------------------
(* The range predicate on its own: getPositionStatus applied to drawn inputs *)

TickRange == (0 - TickSpan)..TickSpan

InitRange ==
    /\ InitMonitor
    /\ wallet = <<>>
    /\ fetcher = FetcherIdle
    /\ resolver = ResolverIdle
    /\ UtilsIdle
    /\ failuresLeft = 0
    /\ cyclesLeft = 0
    /\ ticksLeft = 0
    /\ scenario = <<>>
    /\ rangeOut = <<>>
    /\ \E lower \in TickRange, upper \in TickRange, tick \in TickRange,
          staked \in 0..MaxStaked :
          rangeIn = <<[id |-> 1, lp |-> "0xA", tick_lower |-> lower,
                       tick_upper |-> upper, staked |-> staked],
                      [tick |-> tick]>>

\* getPositionStatus(position, pool), and the out-of-range notification for it
ComputeStatus ==
    /\ rangeOut = <<>>
    /\ LET status == getPositionStatus(rangeIn[1], rangeIn[2])
       IN  rangeOut' = <<status,
                         sendOutOfRangeAlert(status.positionId, status.currentTick,
                                             status.tickLower, status.tickUpper,
                                             status.isStaked)>>
    /\ UNCHANGED <<previousStates, now, isShuttingDown, monitoringInterval, mainPc, cycles,
                   wallet, failuresLeft, cyclesLeft, ticksLeft, lastEval, lastOorSent, observed, overlapSeen,
                   rangeIn, scenario, serviceVars>>

SpecRange == InitRange /\ [][ComputeStatus]_vars

-----------------------------------------------------------------------------
(* The cooldown scenario: one position, out of range at every observation,  *)
(* one poll cycle every 10 minutes, each cycle complete before the next.    *)

ScenarioIntervalMs == 10 * 60 * 1000
\* pool ticks tried by the scenario; those outside the position's range are used
ScenarioTicks == {850, 899, 1000, 1100, 1150}
MinuteMs == 60 * 1000

InitScenario ==
    /\ previousStates = <<>>
    /\ now = StartTime
    /\ isShuttingDown = FALSE
    /\ monitoringInterval = TRUE
    /\ mainPc = "monitoring"
    /\ cycles = [c \in CycleIds |-> IF c = 1 THEN [IdleCycle EXCEPT !.pc = "fetch"]
                                             ELSE IdleCycle]
    /\ lastEval = NoEval
    /\ lastOorSent = [k \in Keys |-> 0]
    /\ observed = {}
    /\ overlapSeen = FALSE
    /\ wallet = SubSeq(PositionSlots, 1, 1)
    /\ fetcher = FetcherIdle
    /\ resolver = ResolverIdle
    /\ UtilsIdle
    /\ failuresLeft = 0
    /\ cyclesLeft = 0
    /\ ticksLeft = 0
    /\ rangeIn = <<>>
    /\ rangeOut = <<>>
    /\ \E tick \in {t \in ScenarioTicks : ~isPositionInRange(PositionSlots[1], [tick |-> t])},
          staked \in 0..MaxStaked :
          scenario = [obs |-> 0, tick |-> tick, staked |-> staked, oorAlertMinutes |-> <<>>]

\* the cycle's fetch returns the position, out of range
ScenarioFetch ==
    /\ cycles[1].pc = "fetch"
    /\ LET position == [id |-> wallet[1].id, lp |-> wallet[1].lp,
                        tick_lower |-> wallet[1].tick_lower,
                        tick_upper |-> wallet[1].tick_upper,
                        staked |-> scenario.staked]
           poolMap == [p \in {wallet[1].lp} |-> scenario.tick]
       IN  Commit(1, AfterMonitorPositions(Machine(1),
                                           monitorPositions(<<position>>, poolMap)))
    /\ UNCHANGED <<now, isShuttingDown, monitoringInterval, mainPc,
                   wallet, failuresLeft, cyclesLeft, ticksLeft, overlapSeen, rangeIn, rangeOut, scenario, serviceVars>>

\* the awaited notifier call of the cycle settles
ScenarioSend == SendSettles(1)

\* the cycle is over: its out-of-range alert, if any, is noted with its minute;
\* 10 minutes later the timer starts the next cycle
ScenarioNextCycle ==
    /\ cycles[1].pc = "idle"
    /\ scenario.obs < Observations
    /\ LET alerted == \E i \in 1..Len(lastEval.alerts) : lastEval.alerts[i].kind = "outOfRange"
           minute == (lastEval.time - StartTime) \div MinuteMs
       IN  scenario' = [scenario EXCEPT
                           !.obs = @ + 1,
                           !.oorAlertMinutes = IF alerted THEN Append(@, minute) ELSE @]
    /\ IF scenario.obs + 1 < Observations
       THEN /\ now' = now + ScenarioIntervalMs
            /\ cycles' = [cycles EXCEPT ![1].pc = "fetch"]
       ELSE UNCHANGED <<now, cycles>>
    /\ UNCHANGED <<previousStates, isShuttingDown, monitoringInterval, mainPc,
                   wallet, failuresLeft, cyclesLeft, ticksLeft, lastEval, lastOorSent, observed, overlapSeen,
                   rangeIn, rangeOut, serviceVars>>

NextScenario == ScenarioFetch \/ ScenarioSend \/ ScenarioNextCycle

SpecScenario == InitScenario /\ [][NextScenario]_vars

\* the shared RateLimiter on its own: one caller makes a few execute calls,
\* one after the other
InitLimiter ==
    /\ InitMonitor
    /\ wallet = <<>>
    /\ failuresLeft = 0
    /\ cyclesLeft = 0
    /\ ticksLeft = LimiterTicks
    /\ rangeIn = <<>>
    /\ rangeOut = <<>>
    /\ scenario = <<>>
    /\ fetcher = FetcherIdle
    /\ resolver = ResolverIdle
    /\ rateLimiter = [LimiterIdle EXCEPT !.callers = 1, !.callsLeft = LimiterCalls]
    /\ ttlCache = CacheIdle
    /\ batchProvider = BatchIdle
    /\ rpcManager = RpcIdle

SpecLimiter == InitLimiter /\ [][NextLimiter]_vars

\* the RpcManager on its own: index.ts calls initialize first
InitRpc ==
    /\ InitMonitor
    /\ wallet = <<>>
    /\ failuresLeft = 0
    /\ cyclesLeft = 0
    /\ ticksLeft = 0
    /\ rangeIn = <<>>
    /\ rangeOut = <<>>
    /\ scenario = <<>>
    /\ fetcher = FetcherIdle
    /\ resolver = ResolverIdle
    /\ rateLimiter = LimiterIdle
    /\ ttlCache = CacheIdle
    /\ batchProvider = BatchIdle
    /\ rpcManager = [BeginOp([RpcIdle EXCEPT !.opsLeft = RpcOps], "initialize", "")
                        EXCEPT !.pc = "initialize"]

SpecRpc == InitRpc /\ [][NextRpc]_vars

\* one BatchProvider.execute call
InitBatch ==
    /\ InitMonitor
    /\ wallet = <<>>
    /\ failuresLeft = 0
    /\ cyclesLeft = 0
    /\ ticksLeft = 0
    /\ rangeIn = <<>>
    /\ rangeOut = <<>>
    /\ scenario = <<>>
    /\ fetcher = FetcherIdle
    /\ resolver = ResolverIdle
    /\ UtilsIdle

SpecBatch == InitBatch /\ [][NextBatch]_vars

\* one BatchProvider.execute call with any integer for batchSize
SpecBatchAny == InitBatch /\ [][NextBatchAny]_vars

\* one Cache on its own
InitCache ==
    /\ InitMonitor
    /\ wallet = <<>>
    /\ failuresLeft = 0
    /\ cyclesLeft = 0
    /\ ticksLeft = CacheTicks
    /\ rangeIn = <<>>
    /\ rangeOut = <<>>
    /\ scenario = <<>>
    /\ fetcher = FetcherIdle
    /\ resolver = ResolverIdle
    /\ rateLimiter = LimiterIdle
    /\ ttlCache = [CacheIdle EXCEPT !.callsLeft = CacheCalls]
    /\ batchProvider = BatchIdle
    /\ rpcManager = RpcIdle

SpecCache == InitCache /\ [][NextCache]_vars

\* the shared RateLimiter with callers that do not await one another, over a
\* shorter time
InitLimiterRace ==
    /\ InitMonitor
    /\ wallet = <<>>
    /\ failuresLeft = 0
    /\ cyclesLeft = 0
    /\ ticksLeft = LimiterTicks \div 2
    /\ rangeIn = <<>>
    /\ rangeOut = <<>>
    /\ scenario = <<>>
    /\ fetcher = FetcherIdle
    /\ resolver = ResolverIdle
    /\ rateLimiter = [LimiterIdle EXCEPT !.callers = LimiterCallers,
                                         !.callsLeft = LimiterCallers + 1]
    /\ ttlCache = CacheIdle
    /\ batchProvider = BatchIdle
    /\ rpcManager = RpcIdle

SpecLimiterRace == InitLimiterRace /\ [][NextLimiter]_vars

-----------------------------------------------------------------------------
(* Properties.  "The evaluation" is lastEval: the evaluation of one position *)
(* that completed last, with the PositionObservation it read (prev), the     *)
(* status it was given, the notifications it sent and the observation it     *)
(* stored.  Every evaluation is the last one in the state it completes in.   *)

AlertCount(alerts, kind) ==
    Cardinality({i \in 1..Len(alerts) : alerts[i].kind = kind})

Evaluated == lastEval.cycle # -1
FirstObservation == Evaluated /\ lastEval.prev = NoState
HasPrev == Evaluated /\ lastEval.prev # NoState

\* C1: on the first observation of a key (no PositionObservation stored), the
\* cycle sends one out-of-range alert iff the position is out of range, one
\* unstaked alert iff it is unstaked, never a back-in-range alert, and so
\* nothing at all for a position that is in range and staked.
C1_FirstObservation ==
    FirstObservation =>
        /\ AlertCount(lastEval.alerts, "outOfRange") = (IF lastEval.isInRange THEN 0 ELSE 1)
        /\ AlertCount(lastEval.alerts, "unstaked") = (IF lastEval.isStaked THEN 0 ELSE 1)
        /\ AlertCount(lastEval.alerts, "backInRange") = 0
        /\ (lastEval.isInRange /\ lastEval.isStaked => lastEval.alerts = <<>>)

C1_Witness ==
    /\ FirstObservation
    /\ ~lastEval.isInRange
    /\ ~lastEval.isStaked
    /\ Len(lastEval.alerts) = 2

\* C2: an evaluation that read an in-range observation and is given an
\* out-of-range status sends exactly one out-of-range alert, whatever the clock
\* and the stored alert times; its direction is "above" when the tick is at or
\* over the upper bound (900/1100, tick 1150) and "below" under the lower bound.
C2_TransitionAlerts ==
    (HasPrev /\ lastEval.prev.isInRange /\ ~lastEval.isInRange) =>
        /\ AlertCount(lastEval.alerts, "outOfRange") = 1
        /\ \A i \in 1..Len(lastEval.alerts) :
              lastEval.alerts[i].kind = "outOfRange" =>
                 /\ (lastEval.currentTick >= lastEval.tickUpper
                        => lastEval.alerts[i].direction = "above")
                 /\ (lastEval.currentTick < lastEval.tickLower
                        => lastEval.alerts[i].direction = "below")

C2_Witness ==
    /\ HasPrev
    /\ lastEval.prev.isInRange
    /\ lastEval.tickLower = 900
    /\ lastEval.tickUpper = 1100
    /\ lastEval.currentTick = 1150
    /\ AlertCount(lastEval.alerts, "outOfRange") = 1
    /\ \E i \in 1..Len(lastEval.alerts) : lastEval.alerts[i].direction = "above"

\* the PositionObservation now stored for the evaluation's key
StoredForLastEval ==
    MapGet(previousStates,
           positionKey([poolAddress |-> lastEval.key[1], positionId |-> lastEval.key[2]]))

\* C3 (as amended): the position is out of range at all 18 observations, taken
\* 10 minutes apart; exactly 3 out-of-range alerts are sent, by the observations
\* at 0, 70 and 140 minutes (the one at 60 minutes is not yet past the cooldown).
C3_CooldownScenario ==
    scenario.obs = Observations => scenario.oorAlertMinutes = <<0, 70, 140>>

\* C3 as stated: the 3 alerts are sent by the observations at 0, 60 and 120 minutes.
C3_Original ==
    scenario.obs = Observations => scenario.oorAlertMinutes = <<0, 60, 120>>

C3_Witness ==
    /\ scenario.obs = Observations
    /\ Len(scenario.oorAlertMinutes) = 3
    /\ now - StartTime = 170 * MinuteMs

C5_InRangeClearsCooldown ==
    /\ \A k \in DOMAIN previousStates :
          previousStates[k].isInRange => previousStates[k].lastOutOfRangeAlertTime = 0
    /\ (Evaluated /\ lastEval.isInRange) =>
          StoredForLastEval # NoState /\ StoredForLastEval.lastOutOfRangeAlertTime = 0
    /\ (HasPrev /\ lastEval.prev.isInRange /\ ~lastEval.isInRange) =>
          /\ lastEval.prev.lastOutOfRangeAlertTime = 0
          /\ AlertCount(lastEval.alerts, "outOfRange") = 1
          /\ StoredForLastEval.lastOutOfRangeAlertTime = lastEval.time

C5_Witness ==
    /\ HasPrev
    /\ ~overlapSeen
    /\ lastEval.prev.isInRange
    /\ ~lastEval.isInRange
    /\ AlertCount(lastEval.alerts, "outOfRange") = 1
    /\ lastEval.oorGap > 0
    /\ lastEval.oorGap < ALERT_COOLDOWN_MS

\* C6 (as amended): the cooldown limits repeats only while the key stays out of
\* range: an evaluation that read an out-of-range observation sends an
\* out-of-range alert only if its clock reading is more than ALERT_COOLDOWN_MS
\* after that observation's lastOutOfRangeAlertTime.  (After an in-range
\* observation the next out-of-range one alerts at once, so an oscillating
\* position is alerted on every excursion.)
C6_CooldownWhileOutOfRange ==
    (HasPrev /\ ~lastEval.prev.isInRange /\ AlertCount(lastEval.alerts, "outOfRange") > 0) =>
        /\ lastEval.prev.lastOutOfRangeAlertTime > 0
        /\ lastEval.time - lastEval.prev.lastOutOfRangeAlertTime > ALERT_COOLDOWN_MS

\* C6 as stated, for cycles that ran one at a time and alerts sent at different
\* clock readings: two out-of-range alerts for one key are never less than the
\* cooldown apart.
C6_Original ==
    (Evaluated /\ ~overlapSeen /\ AlertCount(lastEval.alerts, "outOfRange") > 0
       /\ lastEval.oorGap > 0) =>
        lastEval.oorGap >= ALERT_COOLDOWN_MS

C6_Witness ==
    /\ HasPrev
    /\ ~lastEval.prev.isInRange
    /\ ~lastEval.isInRange
    /\ AlertCount(lastEval.alerts, "outOfRange") = 1

Quiescent == \A c \in CycleIds : ~InFlight(c)

\* the evaluation read an out-of-range observation and is given an
\* out-of-range status
StayedOutOfRange == HasPrev /\ ~lastEval.prev.isInRange /\ ~lastEval.isInRange

\* C36: when the cycles so far ran one at a time, every stored observation
\* that is in range has lastOutOfRangeAlertTime = 0, and every one that is out
\* of range has it above 0 and equal to the clock reading of the key's latest
\* out-of-range alert; every stored observation that is staked has
\* lastUnstakedAlertTime = 0 and every unstaked one has it above 0, where an
\* unstaked evaluation stores its own clock reading if it sent an unstaked
\* alert and the time it read otherwise.
C36_StoredAlertTimes ==
    /\ (~overlapSeen /\ Quiescent) =>
          \A k \in DOMAIN previousStates :
              LET obs == previousStates[k]
              IN  /\ obs.isInRange => obs.lastOutOfRangeAlertTime = 0
                  /\ ~obs.isInRange =>
                        /\ obs.lastOutOfRangeAlertTime > 0
                        /\ obs.lastOutOfRangeAlertTime = lastOorSent[k]
                  /\ obs.isStaked => obs.lastUnstakedAlertTime = 0
                  /\ ~obs.isStaked =>
                        /\ obs.lastUnstakedAlertTime > 0
                        /\ obs.lastUnstakedAlertTime <= now
    /\ (~overlapSeen /\ Evaluated /\ ~lastEval.isStaked) =>
          lastEval.stored.lastUnstakedAlertTime =
              IF AlertCount(lastEval.alerts, "unstaked") > 0 THEN lastEval.time
              ELSE lastEval.prev.lastUnstakedAlertTime

\* a position stayed out of range and unstaked over two cycles, the second
\* within the cooldown: the stored observation holds the times of the alerts
\* of the first
C36_Witness ==
    /\ ~overlapSeen
    /\ Quiescent
    /\ StayedOutOfRange
    /\ ~lastEval.isStaked
    /\ lastEval.alerts = <<>>
    /\ StoredForLastEval.lastOutOfRangeAlertTime = lastOorSent[lastEval.key]
    /\ StoredForLastEval.lastOutOfRangeAlertTime < lastEval.time
    /\ StoredForLastEval.lastUnstakedAlertTime = StoredForLastEval.lastOutOfRangeAlertTime

\* C37: an evaluation of a key that stayed out of range sends an out-of-range
\* alert exactly when its clock reading is more than ALERT_COOLDOWN_MS after
\* the alert time it read (none at exactly ALERT_COOLDOWN_MS), and the alert
\* it sends is more than ALERT_COOLDOWN_MS after the key's previous
\* out-of-range alert.
C37_RepeatAfterCooldown ==
    StayedOutOfRange =>
        /\ lastEval.prev.lastOutOfRangeAlertTime > 0
        /\ AlertCount(lastEval.alerts, "outOfRange") =
              (IF lastEval.time - lastEval.prev.lastOutOfRangeAlertTime > ALERT_COOLDOWN_MS
               THEN 1 ELSE 0)
        /\ lastEval.time - lastEval.prev.lastOutOfRangeAlertTime = ALERT_COOLDOWN_MS =>
              AlertCount(lastEval.alerts, "outOfRange") = 0
        /\ AlertCount(lastEval.alerts, "outOfRange") > 0 =>
              lastEval.oorGap > ALERT_COOLDOWN_MS

\* C8: at most one checkAndAlert invocation is in flight at any time.
C8_OneCycleAtATime ==
    Cardinality({c \in CycleIds : InFlight(c)}) <= 1

\* C9: getPositionStatus gives isInRange = (tick_lower <= pool.tick < tick_upper),
\* so a tick at the lower bound of a non-empty range is in range and a tick at
\* the upper bound is out of range, and isStaked = (staked > 0).
C9_RangePredicate ==
    rangeOut # <<>> =>
        LET position == rangeIn[1]
            pool == rangeIn[2]
            status == rangeOut[1]
        IN  /\ status.isInRange =
                  (position.tick_lower <= pool.tick /\ pool.tick < position.tick_upper)
            /\ isPositionInRange(position, pool) = status.isInRange
            /\ (pool.tick = position.tick_lower /\ position.tick_lower < position.tick_upper
                   => status.isInRange)
            /\ (pool.tick = position.tick_upper => ~status.isInRange)
            /\ status.isStaked = (position.staked > 0)

C9_Witness ==
    /\ rangeOut # <<>>
    /\ rangeIn[1].tick_lower < rangeIn[1].tick_upper
    /\ rangeIn[2].tick = rangeIn[1].tick_upper
    /\ ~rangeOut[1].isInRange
    /\ rangeIn[1].staked > 0
    /\ rangeOut[1].isStaked

\* C10: once an evaluation has completed, the observation stored under its key
\* holds the in-range and staked booleans it was given, alert or no alert; the
\* map holds exactly one observation for each (pool_address, position_id) pair
\* evaluated so far, and none is ever missing again.
C10_ObservationStored ==
    /\ Evaluated =>
          /\ StoredForLastEval # NoState
          /\ StoredForLastEval.isInRange = lastEval.isInRange
          /\ StoredForLastEval.isStaked = lastEval.isStaked
    /\ Cardinality(DOMAIN previousStates) = Cardinality(observed)
    /\ \A pair \in observed :
          positionKey([poolAddress |-> pair[1], positionId |-> pair[2]])
             \in DOMAIN previousStates

C10_Witness ==
    /\ HasPrev
    /\ lastEval.alerts = <<>>
    /\ Cardinality(observed) = 2
    /\ Cardinality(DOMAIN previousStates) = 2

\* the notifications an evaluation must send, from the observation stored for its
\* own key, the status it was given and its clock reading alone
AlertKindsDue(prev, isInRange, isStaked, time) ==
    (IF ~isStaked /\ (WasStaked(prev) \/ CooldownExpired(time, LastUnstakedOf(prev)))
     THEN <<"unstaked">> ELSE <<>>)
    \o (IF ~isInRange /\ (WasInRange(prev) \/ CooldownExpired(time, LastOutOfRangeOf(prev)))
        THEN <<"outOfRange">>
        ELSE IF isInRange /\ prev # NoState /\ ~prev.isInRange
        THEN <<"backInRange">> ELSE <<>>)

\* C11: the per-key machines are independent: an evaluation reads the
\* observation stored for its own (pool_address, position_id) pair, the alerts it
\* sends are determined by that observation, its status and the clock, and its
\* write leaves the observation of every other key as it was.
C11_PerKeyIndependent ==
    Evaluated =>
        /\ lastEval.prev = lastEval.ownPrev
        /\ [i \in 1..Len(lastEval.alerts) |-> lastEval.alerts[i].kind]
              = AlertKindsDue(lastEval.ownPrev, lastEval.isInRange, lastEval.isStaked,
                              lastEval.time)
        /\ lastEval.othersKept

\* the second position is evaluated, and alerts, while the first position's
\* observation is stored and differs from what the second one stores
C11_Witness ==
    /\ Evaluated
    /\ lastEval.key = <<"0xB", 1>>
    /\ lastEval.alerts # <<>>
    /\ <<"0xA", 1>> \in DOMAIN previousStates
    /\ previousStates[<<"0xA", 1>>] # lastEval.stored
    /\ previousStates[<<"0xA", 1>>].isInRange
    /\ previousStates[<<"0xA", 1>>].isStaked

C13_MissingPoolSkipped ==
    /\ Evaluated => ~lastEval.wasSkipped /\ lastEval.othersKept
    /\ \A c \in CycleIds :
          cycles[c].skipped # {} =>
             /\ cycles[c].pc \in {"sendUnstaked", "sendOutOfRange", "sendBackInRange", "done"}
             /\ \A i \in 1..Len(cycles[c].statuses) :
                   <<cycles[c].statuses[i].poolAddress, cycles[c].statuses[i].positionId>>
                      \notin cycles[c].skipped
             /\ ~overlapSeen =>
                   \A k \in cycles[c].skipped :
                      MapGet(previousStates,
                             positionKey([poolAddress |-> k[1], positionId |-> k[2]]))
                         = cycles[c].skippedObs[k]
             /\ cycles[c].pc = "done" =>
                   \A i \in 1..Len(cycles[c].statuses) :
                      positionKey(cycles[c].statuses[i]) \in DOMAIN previousStates

\* the first cycle stored an observation for both positions; in the next one
\* the first position's pool is missing and the second position is evaluated
\* and alerts
C13_Witness ==
    /\ cycles[1].skipped = {<<"0xA", 1>>}
    /\ cycles[1].skippedObs[<<"0xA", 1>>] # NoState
    /\ ~cycles[1].skippedObs[<<"0xA", 1>>].isInRange
    /\ cycles[1].pc = "sendOutOfRange"
    /\ CurrentStatus(Machine(1)).poolAddress = "0xB"
    /\ previousStates[<<"0xA", 1>>] = cycles[1].skippedObs[<<"0xA", 1>>]

\* the observation an evaluation must store, from the observation it read, the
\* status it was given and its clock reading alone
ObservationDue(prev, isInRange, isStaked, time) ==
    [isInRange |-> isInRange,
     isStaked |-> isStaked,
     lastOutOfRangeAlertTime |->
        IF isInRange THEN 0
        ELSE IF WasInRange(prev) \/ CooldownExpired(time, LastOutOfRangeOf(prev)) THEN time
        ELSE LastOutOfRangeOf(prev),
     lastUnstakedAlertTime |->
        IF isStaked THEN 0
        ELSE IF WasStaked(prev) \/ CooldownExpired(time, LastUnstakedOf(prev)) THEN time
        ELSE LastUnstakedOf(prev)]

\* C14: a notifier call that returns false changes nothing: the evaluation has
\* made each call it decided on exactly once, stores the observation and alert
\* times a delivered send would have left, and the cycle goes on to evaluate
\* every remaining status and returns.
C14_FailedSendIgnored ==
    /\ (Evaluated /\ lastEval.sendFailed) =>
          /\ [i \in 1..Len(lastEval.alerts) |-> lastEval.alerts[i].kind]
                = AlertKindsDue(lastEval.prev, lastEval.isInRange, lastEval.isStaked,
                                lastEval.time)
          /\ lastEval.stored = ObservationDue(lastEval.prev, lastEval.isInRange,
                                              lastEval.isStaked, lastEval.time)
    /\ \A c \in CycleIds :
          cycles[c].failures =>
             /\ cycles[c].pc \in {"sendUnstaked", "sendOutOfRange", "sendBackInRange", "done"}
             /\ mainPc # "exited"
             /\ cycles[c].pc = "done" =>
                   \A i \in 1..Len(cycles[c].statuses) :
                      positionKey(cycles[c].statuses[i]) \in DOMAIN previousStates
             /\ cycles[c].pc # "done" =>
                   \A i \in 1..(cycles[c].idx - 1) :
                      positionKey(cycles[c].statuses[i]) \in DOMAIN previousStates

\* the out-of-range alert of the first position failed; its clock was started
\* all the same, and the cycle went on to the second position and returned
C14_Witness ==
    /\ cycles[0].pc = "done"
    /\ cycles[0].failures
    /\ Len(cycles[0].statuses) = 2
    /\ lastEval.key = <<"0xB", 1>>
    /\ ~lastEval.sendFailed
    /\ <<"0xA", 1>> \in DOMAIN previousStates
    /\ previousStates[<<"0xA", 1>>].lastOutOfRangeAlertTime = lastEval.time

-----------------------------------------------------------------------------
(* Properties of fetchPositions *)

PairOf(pos) == <<pos.id, pos.lp>>

\* the (id, pool address) pairs of the positions collected so far
CollectedPairs == {PairOf(fetcher.allPositions[i]) : i \in 1..Len(fetcher.allPositions)}

\* the page calls a fetch makes for a count of c: every offset below c in steps
\* of limit, first for positions(), then for positionsUnstakedConcentrated()
ExpectedCalls(c) ==
    LET n == (c + limit - 1) \div limit
    IN  [i \in 1..(2 * n) |->
            IF i <= n
            THEN [accessor |-> "positions", limit |-> limit, offset |-> (i - 1) * limit]
            ELSE [accessor |-> "positionsUnstakedConcentrated", limit |-> limit,
                  offset |-> (i - n - 1) * limit]]

\* C15: fetchPositions holds at most one Position per (id, pool address) pair,
\* whichever accessors and pages returned the pair, and the one it holds is the
\* first occurrence it met.
C15_OnePerPair ==
    /\ \A i, j \in 1..Len(fetcher.allPositions) :
          i # j => PairOf(fetcher.allPositions[i]) # PairOf(fetcher.allPositions[j])
    /\ \A i \in 1..Len(fetcher.allPositions) :
          /\ PairOf(fetcher.allPositions[i]) \in DOMAIN fetcher.firstSeen
          /\ fetcher.allPositions[i]
                = parsePosition(fetcher.firstSeen[PairOf(fetcher.allPositions[i])])

\* the unstaked-concentrated accessor returned, with other contents, a pair
\* already collected; the fetch returned two positions of the same id
C15_Witness ==
    /\ fetcher.pc = "returned"
    /\ fetcher.dupDropped
    /\ Len(fetcher.allPositions) >= 2
    /\ \E i, j \in 1..Len(fetcher.allPositions) :
          /\ fetcher.allPositions[i].id = fetcher.allPositions[j].id
          /\ fetcher.allPositions[i].lp # fetcher.allPositions[j].lp

\* C16: when count() reported c, the fetch has made, at its return, exactly
\* 2 * ceil(c / 500) page calls: one to each accessor, with limit 500, for each
\* offset 0, 500, ... below c (none for c = 0, no extra page for a multiple of 500).
C16_PageCalls ==
    (fetcher.pc = "returned" /\ fetcher.countOk) =>
        /\ fetcher.calls = ExpectedCalls(fetcher.maxPoolsToCheck)
        /\ Len(fetcher.calls) = 2 * ((fetcher.maxPoolsToCheck + 499) \div 500)
        /\ (fetcher.maxPoolsToCheck = 0 => fetcher.calls = <<>>)
        /\ \A i \in 1..Len(fetcher.calls) :
              fetcher.calls[i].limit = 500 /\ fetcher.calls[i].offset < fetcher.maxPoolsToCheck

\* the count is a whole number of pages
C16_Witness ==
    /\ fetcher.pc = "returned"
    /\ fetcher.countOk
    /\ fetcher.maxPoolsToCheck = MaxPages * limit
    /\ Len(fetcher.calls) = 2 * MaxPages

\* C17: no collected Position has the zero pool address or liquidity, staked
\* and id all zero, and every tuple of a resolved page with a non-zero pool
\* address and a non-zero liquidity, staked or id has its pair in the result.
C17_Filter ==
    /\ \A i \in 1..Len(fetcher.allPositions) :
          /\ fetcher.allPositions[i].lp # ZeroAddress
          /\ ~(/\ fetcher.allPositions[i].liquidity = 0
               /\ fetcher.allPositions[i].staked = 0
               /\ fetcher.allPositions[i].id = 0)
    /\ DOMAIN fetcher.firstSeen \subseteq CollectedPairs

\* tuples were discarded, and a tuple with id 0 but liquidity and a tuple with
\* stake but no liquidity were kept
C17_Witness ==
    /\ fetcher.pc = "returned"
    /\ fetcher.sawDiscard
    /\ \E i \in 1..Len(fetcher.allPositions) :
          fetcher.allPositions[i].id = 0 /\ fetcher.allPositions[i].liquidity > 0
    /\ \E i \in 1..Len(fetcher.allPositions) :
          fetcher.allPositions[i].liquidity = 0 /\ fetcher.allPositions[i].staked > 0

\* C18: a rejected page call does not end the fetch: the later pages are still
\* requested, and the fetch returns the positions of the pages that resolved,
\* one per pair.
C18_PageFailureTolerated ==
    /\ fetcher.pc \in {"idle", "count", "positions", "positionsUnstakedConcentrated",
                       "returned"}
    /\ (fetcher.pc = "returned" /\ fetcher.pageFailed) =>
          /\ fetcher.calls = ExpectedCalls(fetcher.maxPoolsToCheck)
          /\ CollectedPairs = DOMAIN fetcher.firstSeen
          /\ Cardinality(CollectedPairs) = Len(fetcher.allPositions)

\* a page call was rejected, the count had been reported, and the fetch
\* returned positions all the same
C18_Witness ==
    /\ fetcher.pc = "returned"
    /\ fetcher.pageFailed
    /\ fetcher.countOk
    /\ Len(fetcher.calls) = 2 * MaxPages
    /\ Len(fetcher.allPositions) >= 2

-----------------------------------------------------------------------------
(* Properties of fetchPoolsForPositions.  They speak of the call in progress *)
(* or, at "returned", of the call that has just returned.                    *)

RpcMade(poolAddress) == {c \in BasicsCalls \cup TokenCalls : <<poolAddress, c>> \in resolver.rpc}

\* C19: a pool whose cached state was stored no more than the TTL ago is
\* returned from the cache with no pool or token call made for it; a pool whose
\* cached state is older than the TTL has its pool calls made again, and, if it
\* is returned, its token calls too and the state returned is the one just
\* fetched and cached.
C19_CacheWithinTtl ==
    \A poolAddress \in DOMAIN resolver.checked :
        LET note == resolver.checked[poolAddress]
        IN  /\ (note.age >= 0 /\ note.age <= CacheTtlMs) =>
                  /\ note.hit
                  /\ RpcMade(poolAddress) = {}
                  /\ poolAddress \in DOMAIN resolver.poolMap
                  /\ resolver.poolMap[poolAddress] = note.value
            /\ note.age > CacheTtlMs =>
                  /\ ~note.hit
                  /\ BasicsCalls \subseteq RpcMade(poolAddress)
                  /\ poolAddress \in DOMAIN resolver.poolMap =>
                        /\ RpcMade(poolAddress) = BasicsCalls \cup TokenCalls
                        /\ poolAddress \in DOMAIN resolver.poolCache
                        /\ resolver.poolMap[poolAddress]
                              = resolver.poolCache[poolAddress].value
                        /\ resolver.poolCache[poolAddress].expiry - CacheTtlMs >= note.time

\* one call returns a pool from a cache entry exactly one TTL old and another
\* pool, whose entry was older, with a newly fetched tick
C19_Witness ==
    /\ resolver.pc = "returned"
    /\ DOMAIN resolver.checked = {"0xA", "0xB"}
    /\ resolver.checked["0xA"].age = CacheTtlMs
    /\ resolver.checked["0xA"].hit
    /\ resolver.checked["0xB"].age > CacheTtlMs
    /\ "0xB" \in DOMAIN resolver.poolMap
    /\ resolver.poolMap["0xB"].tick # resolver.checked["0xB"].value.tick

\* C20: a pool is in the result only if its pool calls all succeeded in this
\* call or it was a live cache hit; a pool whose calls failed is not in the
\* result and not in the cache; the call returns all the same, having tried
\* every pool; the result's keys are pool addresses of the input positions.
C20_FailedPoolDropped ==
    /\ resolver.pc \in {"idle", "basics", "tokens", "returned"}
    /\ \A poolAddress \in DOMAIN resolver.poolMap :
          /\ \/ poolAddress \in resolver.basicsOk
             \/ /\ poolAddress \in DOMAIN resolver.checked
                /\ resolver.checked[poolAddress].hit
          /\ \E i \in 1..Len(resolver.positions) : resolver.positions[i] = poolAddress
    /\ \A poolAddress \in resolver.failed :
          /\ poolAddress \notin DOMAIN resolver.poolMap
          /\ poolAddress \notin DOMAIN resolver.poolCache
    /\ resolver.pc = "returned" =>
          \A i \in 1..Len(resolver.positions) :
             \/ resolver.positions[i] \in DOMAIN resolver.poolMap
             \/ resolver.positions[i] \in resolver.failed

\* the first pool's pool calls failed (its cached state had expired), the
\* second pool was resolved, and the call returned
C20_Witness ==
    /\ resolver.pc = "returned"
    /\ resolver.positions = <<"0xA", "0xB">>
    /\ resolver.failed = {"0xA"}
    /\ "0xA" \notin resolver.basicsOk
    /\ resolver.checked["0xA"].age > CacheTtlMs
    /\ DOMAIN resolver.poolMap = {"0xB"}
    /\ "0xB" \in resolver.basicsOk

\* C21: a pool whose pool calls succeeded and one of whose token symbol calls
\* failed is still in the result of the call, under its own address.
C21_SymbolFailureKeepsPool ==
    resolver.pc = "returned" =>
        \A poolAddress \in resolver.symbolFailed :
            /\ poolAddress \in DOMAIN resolver.poolMap
            /\ resolver.poolMap[poolAddress].lp = poolAddress

\* C22: fetchPoolData throws for a pool that cannot be resolved and leaves the
\* cache without an entry for it, so the next fetchPoolData for the pool misses
\* the cache and makes the pool calls again; a pool that is fetched is cached
\* and returned as an LpPool whose lp is the requested address.
C22_ThrowLeavesNoEntry ==
    /\ \A poolAddress \in resolver.threw : poolAddress \notin DOMAIN resolver.poolCache
    /\ \A poolAddress \in DOMAIN resolver.checked :
          resolver.checked[poolAddress].afterThrow =>
              /\ ~resolver.checked[poolAddress].hit
              /\ resolver.checked[poolAddress].age = -1
              /\ BasicsCalls \subseteq RpcMade(poolAddress)
    /\ \A poolAddress \in DOMAIN resolver.poolCache :
          resolver.poolCache[poolAddress].value.lp = poolAddress
    /\ \A poolAddress \in DOMAIN resolver.poolMap :
          /\ resolver.poolMap[poolAddress].lp = poolAddress
          /\ ~resolver.checked[poolAddress].hit =>
                /\ poolAddress \in DOMAIN resolver.poolCache
                /\ resolver.poolCache[poolAddress].value = resolver.poolMap[poolAddress]

\* fetchPoolData threw for a pool in one call; the next call, made at the same
\* clock reading, fetched the pool again and resolved it
C22_Witness ==
    /\ resolver.pc = "returned"
    /\ resolver.callsLeft = 0
    /\ "0xA" \in DOMAIN resolver.checked
    /\ resolver.checked["0xA"].afterThrow
    /\ RpcMade("0xA") = BasicsCalls \cup TokenCalls
    /\ "0xA" \in DOMAIN resolver.poolMap
    /\ "0xA" \in DOMAIN resolver.poolCache
    /\ "0xA" \notin resolver.threw

-----------------------------------------------------------------------------
(* Properties of RateLimiter.execute.  A call's record holds the call the     *)
(* caller made last.                                                          *)

\* the rate-limiting class as the specification lists it: status code 429, or
\* a message containing "rate limit" or "Too Many Requests"
ListedRateLimitClass(error) ==
    \/ error.code = "429"
    \/ \E i \in 1..Len(error.message) :
          \/ /\ i + 1 <= Len(error.message)
             /\ error.message[i] = "rate" /\ error.message[i + 1] = "limit"
          \/ /\ i + 2 <= Len(error.message)
             /\ error.message[i] = "Too" /\ error.message[i + 1] = "Many"
             /\ error.message[i + 2] = "Requests"

\* the class with the error code RATE_LIMIT added
RateLimitClass(error) == error.code = "RATE_LIMIT" \/ ListedRateLimitClass(error)

\* a failure outside the class `inClass` ends the call at once with that
\* error, after one invocation and no backoff if it was the first failure;
\* every further invocation followed a backoff after a failure in the class
ErrorsOutsidePropagate(call, outside, inside) ==
    /\ (call.latest # NoError /\ outside) =>
          /\ call.pc = "rejected"
          /\ call.thrown = call.latest
          /\ Len(call.backoffs) = call.invoked - 1
          /\ call.retriedOn = NoError => (call.invoked = 1 /\ call.backoffs = <<>>)
    /\ call.invoked > 1 => (call.retriedOn # NoError /\ inside)
    /\ call.pc = "backoff" => ~outside

\* C23 as stated: the class is status code 429 or one of the two messages.
C23_Original ==
    \A c \in LimiterCallerIds :
        LET call == rateLimiter.calls[c]
        IN  ErrorsOutsidePropagate(call, ~ListedRateLimitClass(call.latest),
                                   ListedRateLimitClass(call.retriedOn))

\* C23: when the operation fails with an error that is not rate-limiting
\* (error code RATE_LIMIT or 429, or a message containing "rate limit" or
\* "Too Many Requests"), execute invokes it once and rejects with that error at
\* once, with no retry and no backoff; retries follow only errors of the class.
C23_OtherErrorsPropagate ==
    \A c \in LimiterCallerIds :
        LET call == rateLimiter.calls[c]
        IN  ErrorsOutsidePropagate(call, ~RateLimitClass(call.latest),
                                   RateLimitClass(call.retriedOn))

\* a call rejected with the operation's revert error after its only invocation
C23_Witness ==
    \E c \in LimiterCallerIds :
        /\ rateLimiter.calls[c].pc = "rejected"
        /\ rateLimiter.calls[c].thrown.code = "CALL_EXCEPTION"
        /\ rateLimiter.calls[c].invoked = 1
        /\ rateLimiter.calls[c].backoffs = <<>>

\* C24: the operation is invoked at most maxRetries + 1 times; a call whose
\* attempts all failed with rate-limit errors is rejected after exactly that
\* many invocations with the error of the last one; a call that resolved made
\* no invocation after the one that succeeded.
C24_RetriesBounded ==
    \A c \in LimiterCallerIds :
        LET call == rateLimiter.calls[c]
        IN  /\ call.invoked <= maxRetries + 1
            /\ Len(call.backoffs) <= maxRetries
            /\ call.pc = "rejected" =>
                  /\ call.thrown = call.latest
                  /\ RateLimitClass(call.thrown) => call.invoked = maxRetries + 1
            /\ call.pc = "resolved" => call.invoked = Len(call.backoffs) + 1

\* a call rejected after maxRetries + 1 invocations and three growing
\* backoffs, with an error other than the one its last retry followed
C24_Witness ==
    \E c \in LimiterCallerIds :
        /\ rateLimiter.calls[c].pc = "rejected"
        /\ rateLimiter.calls[c].invoked = maxRetries + 1
        /\ rateLimiter.calls[c].backoffs = <<100, 200, 400>>
        /\ rateLimiter.calls[c].thrown # rateLimiter.calls[c].retriedOn
        /\ rateLimiter.calls[c].thrown = rateLimiter.calls[c].latest

\* C34: the k-th backoff of an execute call waits minDelayMs times
\* backoffMultiplier to the power k - 1 (100, 200, 400 ms), from the failure
\* it follows; there are at most maxRetries of them, and a call that has ended
\* made one invocation more than it waited backoffs, so that no backoff
\* follows the last failed attempt.
C34_BackoffDelays ==
    \A c \in LimiterCallerIds :
        LET call == rateLimiter.calls[c]
            k == Len(call.backoffs)
        IN  /\ \A j \in 1..k : call.backoffs[j] = minDelayMs * backoffMultiplier ^ (j - 1)
            /\ k <= maxRetries
            /\ k = 3 => call.backoffs = <<100, 200, 400>>
            /\ call.pc = "backoff" =>
                  /\ k = call.invoked
                  /\ call.wakeAt = call.failedAt + call.backoffs[k]
            /\ call.pc \in {"resolved", "rejected"} => k = call.invoked - 1

\* a call resolved at its last attempt, after backoffs of 100, 200 and 400 ms
C34_Witness ==
    \E c \in LimiterCallerIds :
        /\ rateLimiter.calls[c].pc = "resolved"
        /\ rateLimiter.calls[c].invoked = maxRetries + 1
        /\ rateLimiter.calls[c].backoffs = <<100, 200, 400>>

\* C25: the dispatch times of any two wrapped operations are at least
\* minDelayMs apart, also when the execute calls are made without awaiting
\* one another.
C25_MinimumGap ==
    \A i, j \in 1..Len(rateLimiter.log) :
        i < j => rateLimiter.log[j] - rateLimiter.log[i] >= minDelayMs

-----------------------------------------------------------------------------
(* Properties of Cache.  ttlCache.op is the latest call.                      *)

\* C26: get returns the stored value while the entry is no older than the TTL,
\* counted from the key's last set; for an older entry get returns undefined
\* and deletes the entry, and has is false; set stores the key (again) with
\* the expiry one TTL after the set.
C26_CacheTtl ==
    LET op == ttlCache.op
    IN  /\ op.kind \in {"get", "has"} =>
              /\ op.hit = (op.had /\ op.age <= CacheTtlMs)
              /\ (op.had /\ op.age > CacheTtlMs) => op.key \notin DOMAIN ttlCache.data
              /\ (op.had /\ op.age <= CacheTtlMs) =>
                    /\ op.key \in DOMAIN ttlCache.data
                    /\ ttlCache.data[op.key].value = op.stored
              /\ (op.kind = "get" /\ op.hit) => op.value = op.stored
        /\ op.kind = "set" =>
              /\ op.key \in DOMAIN ttlCache.data
              /\ ttlCache.data[op.key].value = op.value
              /\ ttlCache.data[op.key].expiry = op.time + CacheTtlMs
        /\ \A key \in DOMAIN ttlCache.data :
              ttlCache.data[key].expiry = ttlCache.setAt[key] + CacheTtlMs

\* a key whose entry had outlived the TTL, and was deleted by a get or a has,
\* has just been set again
C26_Witness ==
    /\ ttlCache.op.kind = "set"
    /\ ttlCache.op.age > CacheTtlMs
    /\ ~ttlCache.op.had
    /\ ttlCache.data[ttlCache.op.key].expiry = now + CacheTtlMs

-----------------------------------------------------------------------------
(* Properties of BatchProvider.execute.  batchProvider.last is the chunk      *)
(* whose request settled last, batchProvider.before the results before it.    *)

\* the calls of the chunk that settled last
LastChunk ==
    Slice(batchProvider.calls, batchProvider.last.start,
          batchProvider.last.start + batchProvider.batchSize)

\* the results of the chunk that settled last, as the partial list holds them
LastResults ==
    [j \in {j \in 1..batchProvider.last.len :
                batchProvider.last.start + j \in DOMAIN batchProvider.results} |->
        batchProvider.results[batchProvider.last.start + j]]

\* no two entries of the response array carry the same id
DistinctIds(entries) ==
    \A k, l \in 1..Len(entries) : k # l => entries[k].id # entries[l].id

\* the entries in the order of their ids
InOrder(entries) == SortSeq(entries, LAMBDA x, y : x.id < y.id)

\* the arrangements of the entries
Arrangements(entries) ==
    {[k \in 1..Len(entries) |-> entries[f[k]]] : f \in Permutations(1..Len(entries))}

\* C27: once execute(calls, batchSize) has settled, for any number of calls
\* and any batchSize >= 1, it has returned a list with one result per call,
\* result k belonging to call k.
C27_OneResultPerCall ==
    batchProvider.pc \in {"returned", "rejected"} =>
        /\ batchProvider.pc = "returned"
        /\ DOMAIN batchProvider.results = 1..Len(batchProvider.calls)
        /\ \A k \in 1..Len(batchProvider.calls) :
              batchProvider.results[k].success =>
                  batchProvider.results[k].data = batchProvider.calls[k].target

\* C28: for a response array with one entry per id at most, the results of the
\* chunk are those of the same entries in the order of their ids, and every
\* arrangement of the entries decodes to the same results.
C28_MatchedById ==
    (batchProvider.last.kind = "array" /\ DistinctIds(batchProvider.last.entries)) =>
        /\ DOMAIN LastResults = 1..batchProvider.last.len
        /\ \A j \in 1..batchProvider.last.len :
              LET answers == {k \in 1..Len(batchProvider.last.entries) :
                                 batchProvider.last.entries[k].id = j - 1}
              IN  LastResults[j] =
                      IF \E k \in answers : batchProvider.last.entries[k].kind = "result"
                      THEN Success(LastChunk[j].target)
                      ELSE Failure
        /\ \A arranged \in Arrangements(batchProvider.last.entries) :
              DecodeChunk(LastChunk, arranged)
                  = DecodeChunk(LastChunk, InOrder(batchProvider.last.entries))

\* a chunk of two calls was answered in reverse order, the second call with
\* its result and the first with a result that does not decode
C28_Witness ==
    /\ batchProvider.last.kind = "array"
    /\ Len(batchProvider.last.entries) = 2
    /\ batchProvider.last.entries[1].id = 1
    /\ batchProvider.last.entries[1].kind = "result"
    /\ batchProvider.last.entries[2].id = 0
    /\ batchProvider.last.entries[2].kind = "undecodable"
    /\ LastResults[2] = Success(LastChunk[2].target)
    /\ ~LastResults[1].success

C30_EntryFailureScoped ==
    batchProvider.last.kind = "array" =>
        /\ DOMAIN LastResults = 1..batchProvider.last.len
        /\ \A j \in 1..batchProvider.last.len :
              LET answers == {k \in 1..Len(batchProvider.last.entries) :
                                 batchProvider.last.entries[k].id = j - 1}
              IN  /\ answers = {} => LastResults[j] = Failure
                  /\ \A k \in answers :
                        answers = {k} =>
                            /\ batchProvider.last.entries[k].kind \in {"error", "undecodable"} =>
                                  LastResults[j] = Failure
                            /\ batchProvider.last.entries[k].kind = "result" =>
                                  LastResults[j] = Success(LastChunk[j].target)

\* in a chunk of two calls the first was answered with an RPC error and the
\* second with its result: the second call alone succeeded
C30_Witness ==
    /\ batchProvider.last.kind = "array"
    /\ batchProvider.last.len = 2
    /\ \E k \in 1..Len(batchProvider.last.entries) :
          /\ batchProvider.last.entries[k].id = 0
          /\ batchProvider.last.entries[k].kind = "error"
    /\ LastResults[1] = Failure
    /\ LastResults[2] = Success(LastChunk[2].target)

\* the endpoint after `steps` switches from position `index` of `list`
Rotated(list, index, steps) == list[((index + steps) % Len(list)) + 1]

\* C31: a handleRpcError call for the current endpoint, with more than one
\* endpoint known, keeps the list, moves to the next position of the list (the
\* first after the last), makes that endpoint the current one and adds one to
\* the failure count of the failed endpoint; after n such calls in a row, with
\* n endpoints known, every endpoint was switched to once, the current endpoint
\* is the starting one again, and every endpoint's count is one higher.
C31_RoundRobin ==
    /\ ( /\ rpcManager.pc = "idle"
         /\ rpcManager.op.kind = "handleRpcError"
         /\ rpcManager.op.failedRpc = rpcManager.before.currentRpc
         /\ Len(rpcManager.before.allRpcAddresses) > 1 ) =>
            LET n == Len(rpcManager.before.allRpcAddresses)
                was == rpcManager.before.currentRpcIndex
            IN  /\ rpcManager.allRpcAddresses = rpcManager.before.allRpcAddresses
                /\ rpcManager.currentRpcIndex = IF was = n - 1 THEN 0 ELSE was + 1
                /\ rpcManager.currentRpc =
                      rpcManager.allRpcAddresses[rpcManager.currentRpcIndex + 1]
                /\ getFailureCount(rpcManager.failureCount, rpcManager.op.failedRpc) =
                      getFailureCount(rpcManager.before.failureCount,
                                      rpcManager.op.failedRpc) + 1
    /\ rpcManager.visited # <<>> =>
            LET from == rpcManager.streakFrom
                n == Len(from.allRpcAddresses)
                k == Len(rpcManager.visited)
            IN  /\ \A j \in 1..k :
                      rpcManager.visited[j] =
                          Rotated(from.allRpcAddresses, from.currentRpcIndex, j)
                /\ k = n =>
                      /\ rpcManager.currentRpc = from.currentRpc
                      /\ {rpcManager.visited[j] : j \in 1..k} =
                            {from.allRpcAddresses[j] : j \in 1..n}
                      /\ \A i, j \in 1..k : rpcManager.visited[i] = rpcManager.visited[j] => i = j
                      /\ \A j \in 1..n :
                            getFailureCount(rpcManager.failureCount, from.allRpcAddresses[j]) =
                                getFailureCount(from.failureCount, from.allRpcAddresses[j]) + 1

\* three endpoints are known and the current one failed three times in a row:
\* the manager is back on the first endpoint
C31_Witness ==
    /\ rpcManager.pc = "idle"
    /\ Len(rpcManager.allRpcAddresses) = 3
    /\ Len(rpcManager.visited) = 3
    /\ rpcManager.currentRpc = rpcManager.allRpcAddresses[1]
    /\ rpcManager.currentRpcIndex = 0

\* C40: once initialize has completed, between operations currentRpc is not
\* null, is an entry of allRpcAddresses and is the entry at currentRpcIndex; a
\* refresh that found nothing left currentRpc as it was; and a handleRpcError
\* call for an endpoint other than the current one changed nothing but that
\* endpoint's failure count.
C40_CurrentRpcConsistent ==
    (rpcManager.pc = "idle" /\ rpcManager.isInitialized) =>
        /\ rpcManager.currentRpc # "null"
        /\ \E j \in 1..Len(rpcManager.allRpcAddresses) :
              rpcManager.allRpcAddresses[j] = rpcManager.currentRpc
        /\ rpcManager.currentRpcIndex + 1 \in 1..Len(rpcManager.allRpcAddresses)
        /\ rpcManager.allRpcAddresses[rpcManager.currentRpcIndex + 1] = rpcManager.currentRpc
        /\ (rpcManager.op.kind = "refresh" /\ ~rpcManager.op.found) =>
              rpcManager.currentRpc = rpcManager.before.currentRpc
        /\ ( /\ rpcManager.op.kind = "handleRpcError"
             /\ rpcManager.op.failedRpc # rpcManager.before.currentRpc ) =>
                /\ rpcManager.currentRpc = rpcManager.before.currentRpc
                /\ rpcManager.allRpcAddresses = rpcManager.before.allRpcAddresses
                /\ rpcManager.currentRpcIndex = rpcManager.before.currentRpcIndex
                /\ \A e \in Endpoints \ {rpcManager.op.failedRpc} :
                      getFailureCount(rpcManager.failureCount, e) =
                          getFailureCount(rpcManager.before.failureCount, e)

-----------------------------------------------------------------------------
(* Properties of the RPC failover and of the count fallback of fetchPositions *)

\* C32: when a page call of a fetch was rejected, the fetch has, by its
\* return, had rpcManager.handleRpcError invoked and made the rejected call
\* once more.
C32_FailureHandled ==
    (fetcher.pc = "returned" /\ fetcher.pageFailed) =>
        /\ rpcManager.op.kind = "handleRpcError"
        /\ \E i, j \in 1..Len(fetcher.calls) : i < j /\ fetcher.calls[i] = fetcher.calls[j]

\* C33: when count() was rejected the fetch does not fail: at its return it has
\* planned against 25000 pools and has made 100 page calls, to positions() and
\* then to positionsUnstakedConcentrated() at offsets 0, 500, ..., 24500.
C33_CountFallback ==
    /\ ~fetcher.countOk => fetcher.pc # "failed"
    /\ (fetcher.pc = "returned" /\ ~fetcher.countOk) =>
          /\ fetcher.maxPoolsToCheck = 25000
          /\ Len(fetcher.calls) = 100
          /\ \A i \in 1..50 :
                /\ fetcher.calls[i] =
                      [accessor |-> "positions", limit |-> 500, offset |-> (i - 1) * 500]
                /\ fetcher.calls[50 + i] =
                      [accessor |-> "positionsUnstakedConcentrated", limit |-> 500,
                       offset |-> (i - 1) * 500]

\* count() was rejected and the fetch returned, with positions, after its last
\* page call at offset 24500
C33_Witness ==
    /\ fetcher.pc = "returned"
    /\ ~fetcher.countOk
    /\ fetcher.calls # <<>>
    /\ fetcher.calls[Len(fetcher.calls)].offset = 24500
    /\ fetcher.allPositions # <<>>

-----------------------------------------------------------------------------
(* Properties of the requests of BatchProvider.execute                       *)

\* ceil(n / c)
CeilDiv(n, c) == (n + c - 1) \div c

\* the execute call has ended
BatchEnded == batchProvider.pc \in {"returned", "rejected"}

\* C35: for n calls and batchSize c >= 1, requests are sent for the chunks in
\* input order, the m-th request holding the calls (m-1)c+1 .. min(mc, n) with
\* ids 0, 1, ... in that order, whatever became of the earlier requests; and
\* when execute has ended, exactly ceil(n / c) requests have been sent.
C35_RequestsPerChunk ==
    LET n == Len(batchProvider.calls)
        c == batchProvider.batchSize
    IN  (batchProvider.pc # "idle" /\ c >= 1) =>
            /\ Len(batchProvider.sent) <= CeilDiv(n, c)
            /\ \A m \in 1..Len(batchProvider.sent) :
                  LET size == IF m * c <= n THEN c ELSE n - (m - 1) * c
                  IN  batchProvider.sent[m] =
                          [j \in 1..size |->
                              [id |-> j - 1,
                               to |-> batchProvider.calls[(m - 1) * c + j].target]]
            /\ BatchEnded => Len(batchProvider.sent) = CeilDiv(n, c)

\* C38: execute never rejects: it returns one result per call, and a call that
\* cannot be encoded has failed alone, the calls sharing its chunk being
\* settled by the response to their own requests.
C38_NeverRejects ==
    /\ batchProvider.pc # "rejected"
    /\ batchProvider.pc = "returned" =>
          /\ DOMAIN batchProvider.results = 1..Len(batchProvider.calls)
          /\ \A k \in 1..Len(batchProvider.calls) :
                ~batchProvider.calls[k].encodable => ~batchProvider.results[k].success

\* C39: execute terminates for every call list and every integer batchSize:
\* each request that settles leaves fewer calls ahead of the loop
\* (calls.length - i decreases), so that the call ends after finitely many
\* requests.
C39_Terminates ==
    [][(batchProvider.pc = "fetch" /\ batchProvider' # batchProvider) =>
          /\ Len(batchProvider'.calls) - batchProvider'.i
                < Len(batchProvider.calls) - batchProvider.i
          /\ Len(batchProvider'.calls) - batchProvider'.i >= 0 - MaxBatchSize]_vars

====
